---- MODULE Spec2Model ----
(***************************************************************************)
(* CC-Packer: the merge / restore engine of src/merger.py (class CCMerger).  *)
(*                                                                           *)
(* The state is the part of one Fallout 4 installation the engine touches:  *)
(* the Data folder (item plugin stubs, item archives, merged output),       *)
(* Data/Strings, Data/CC_Backup (the snapshot tree), Data/CC_Temp (staging) *)
(* and the load-order registry plugins.txt.  merge_cc_content is modelled   *)
(* step by step (one action per numbered step of the method), so that the   *)
(* order of its effects is observable; restore_backup is one action.        *)
(*                                                                           *)
(* Conventions.  File sizes are counted in GiB.  Directory listings         *)
(* (glob, rglob, iterdir) are taken in one fixed order, ItemOrder.  Every   *)
(* merge reads a later second from datetime.now() than the merges before    *)
(* it, so every merge gets a snapshot directory of its own.  What the       *)
(* operating system and bsarch.exe may refuse (an unlink, a copy, a pack,   *)
(* an unpack, a read or write of plugins.txt) is an input of the step that  *)
(* asks for it; a behaviour has at most MaxFaults such refusals.            *)
(***************************************************************************)
EXTENDS Integers, Sequences, FiniteSets, TLC

\* ------------------------------------------------------------------ bounds
MaxCalls == 3         \* merge_cc_content / restore_backup calls per behaviour
MaxFaults == 1        \* refusals of the file system or of bsarch.exe per behaviour
MaxTextureFiles == 3  \* files in a list given to the texture splitting loop alone
MaxFileSize == 8      \* largest size, in GiB, of a file in such a list
MaxRegistryLines == 2 \* lines of a plugins.txt given to the registry methods alone
MaxNames == 2         \* names in the list given to them
MaxTail == 1          \* bytes after the 24 header bytes of a file whose header is checked
MaxStubs == 5         \* texture stubs among the paths a stub can be written to
MaxWorkers == 3       \* worker threads of the window started and not yet handled

\* ------------------------------------------------------- the installation
Items == {"ccAAAFO4001-Rifle", "ccAAAFO4002-TexturePack", "ccAAAFO4003-Armor"}
ItemOrder == <<"ccAAAFO4001-Rifle", "ccAAAFO4002-TexturePack", "ccAAAFO4003-Armor">>
\* the items a user downloads between two calls
Downloads == {ItemOrder[1], ItemOrder[2]}
Kinds == {"Main", "Textures"}
Versions == {"v1", "v2", "v3"}
None == "none"
ArchKeys == Items \X Kinds

\* `"texture" in f.name.lower()` for the archive <base> - <kind>.ba2
BaseHasTexture(i) == i = "ccAAAFO4002-TexturePack"
NameHasTexture(k) == k[2] = "Textures" \/ BaseHasTexture(k[1])

\* The files packed in an item archive, by the archive's content (version).
InnerFile(i, e, s) == [item |-> i, ext |-> e, size |-> s]
MainFiles(i, v) ==
    IF v = "v1" THEN {InnerFile(i, ".nif", 1), InnerFile(i, ".STRINGS", 1)}
    ELSE IF v = "v2" THEN {InnerFile(i, ".fuz", 1)}
    ELSE IF v = "v3" THEN {InnerFile(i, ".nif", 1)}
    ELSE {}
TexFiles(i, v) ==
    IF v = "v1" THEN {InnerFile(i, ".dds", 4)}
    ELSE IF v = "v2" THEN {InnerFile(i, ".dds", 3)}
    ELSE IF v = "v3" THEN {InnerFile(i, ".dds", 2)}
    ELSE {}
ArchiveFiles(k, v) == IF k[2] = "Main" THEN MainFiles(k[1], v) ELSE TexFiles(k[1], v)
AllInnerFiles == UNION {ArchiveFiles(k, v) : k \in ArchKeys, v \in Versions}

Lower(e) == IF e = ".STRINGS" THEN ".strings" ELSE e
IsStringExt(e) == Lower(e) \in {".strings", ".dlstrings", ".ilstrings"}
IsSoundExt(e) == Lower(e) \in {".xwm", ".wav", ".fuz", ".lip"}
DirOf(f) ==
    IF IsStringExt(f.ext) THEN "Strings"
    ELSE IF IsSoundExt(f.ext) THEN "Sound"
    ELSE IF f.ext = ".dds" THEN "Textures" ELSE "Meshes"

\* Names in Data that carry the merged prefix (CCPacked) or the legacy one.
FileName(p, r, n, e) == [prefix |-> p, role |-> r, num |-> n, ext |-> e]
SoundsArchive == FileName("CCPacked", "Sounds", 0, "ba2")
SoundsEsl == FileName("CCPacked", "Sounds", 0, "esl")
MainArchive == FileName("CCPacked", "Main", 0, "ba2")
MainEsl == FileName("CCPacked", "Main", 0, "esl")
TextureArchive(n) == FileName("CCPacked", "Main_Textures", n, "ba2")
TextureEsl(n) == FileName("CCPacked", "Main_Textures", n, "esl")
LegacyArchive == FileName("CCMerged", "Main", 0, "ba2")
LegacyEsl == FileName("CCMerged", "Main", 0, "esl")
UserPlugin == FileName("user", "plugin", 0, "esp")
LegacyStrings == FileName("CCMerged", "Main_en", 0, "strings")
StringsName(f) == FileName(f.item, "en", 0, Lower(f.ext))
HasMergedPrefix(n) == n.prefix \in {"CCPacked", "CCMerged"}

\* ------------------------------------------------------------------ state
VARIABLES
    plugins,        \* items whose plugin stub <base>.esl is in Data
    arch,           \* ArchKeys -> content of <base> - <kind>.ba2 in Data, or None
    merged,         \* files in Data with the merged or the legacy prefix
    strings,        \* files in Data/Strings
    backups,        \* the snapshot directories under Data/CC_Backup by st_mtime,
                    \* the latest last
    temp,           \* Data/CC_Temp
    registry,       \* plugins.txt
    loose,          \* the other files a call put in Data
    regParent,      \* %LOCALAPPDATA%/Fallout4 exists
    ba2_path,       \* the file a verify_ba2_integrity call is given
    esl_files,      \* the bytes of the stubs _create_vanilla_esl has written, by path
    merge_btn, restore_btn,       \* MainWindow: isEnabled() of the two buttons
    workers,        \* MainWindow: the worker threads whose run() has not returned
    finished,       \* the finished signals emitted and not yet handled
    pending_merge_after_restore,  \* MainWindow._pending_merge_after_restore
    pc,             \* position of the running merge_cc_content call
    valid_cc, orphaned_cc, cc_files, current_backup, idx,
    moved_strings, sound_files, created_esls, created_archives, groups,
    texture_files,  \* the (file, size) list the texture splitting loop runs over
    result,         \* what the last call returned
    pre,            \* the installation as the running merge found it
    history,        \* what the calls so far did (for the claims only)
    calls, faults

fsVars == <<plugins, arch, merged, strings, backups, temp, registry, loose>>
guiVars == <<merge_btn, restore_btn, workers, finished, pending_merge_after_restore>>
envVars == <<regParent, ba2_path, esl_files, guiVars>>
localVars == <<valid_cc, orphaned_cc, cc_files, current_backup, idx,
               moved_strings, sound_files, created_esls, created_archives, groups,
               texture_files>>
counters == <<calls, faults>>
vars == <<fsVars, envVars, pc, localVars, result, pre, history, counters>>

EmptySnapshot == [files |-> [k \in ArchKeys |-> None],
               hasManifest |-> FALSE, manifest |-> {}]
NoTemp == [exists |-> FALSE, General |-> {}, GeneralDirs |-> {}, Textures |-> {},
           Sounds |-> {}, splits |-> <<>>]
NoRegistry == [exists |-> FALSE, lines |-> <<>>]
\* an archive file by its size in bytes and the fields of its header
Ba2File(e, sz, m, v, t, o) ==
    [exists |-> e, size |-> sz, magic |-> m, version |-> v, archive_type |-> t,
     name_table_offset |-> o]
NoBa2File == Ba2File(FALSE, 0, "", 0, "", 0)
\* the paths a stub is written to, and none of them written
\* no window
NoGui ==
    /\ merge_btn = TRUE /\ restore_btn = TRUE
    /\ workers = <<>> /\ finished = <<>>
    /\ pending_merge_after_restore = FALSE
StubPaths == {SoundsEsl, MainEsl} \cup {TextureEsl(n) : n \in 1..MaxStubs}
NoStubs == [p \in StubPaths |-> <<>>]
\* moved_strings.txt, named as the archives are
ManifestFile == <<"moved_strings", "txt">>
Line(s, n, p) == [star |-> s, name |-> n, pad |-> p]

Installation == <<plugins, arch, merged, strings, backups, temp, registry, loose>>

\* -------------------------------------------------------- small utilities
Range(s) == {s[j] : j \in 1..Len(s)}
\* the files of S a loop may fail to unlink or copy
FailSets(S) == {F \in SUBSET S : Cardinality(F) <= MaxFaults - faults}
MayFail == faults < MaxFaults
RECURSIVE SumSizes(_)
SumSizes(S) == IF S = {} THEN 0
               ELSE LET f == CHOOSE x \in S : TRUE IN f.size + SumSizes(S \ {f})

Idle == pc \in {"Idle", "Done", "Failed", "Raised"}
Running == ~Idle

\* ------------------------------------------------- results and the history
Ok(op) == [op |-> op, success |-> TRUE, raised |-> FALSE, error |-> ""]
Failure(op, msg) == [op |-> op, success |-> FALSE, raised |-> FALSE, error |-> msg]
Exception(op, msg) == [op |-> op, success |-> FALSE, raised |-> TRUE, error |-> msg]
NoResult == [op |-> "none", success |-> FALSE, raised |-> FALSE, error |-> ""]

NoHistory == [last |-> "none", prev |-> "none",
              deleted |-> {},      \* <<archive, content>> a merge removed from Data
              backedUp |-> {},     \* archives the running merge copied to its snapshot
              unpacked |-> {},     \* <<archive, directory>> the running merge unpacked
              removed |-> {},      \* archives the running merge unlinked in step 10
              regFailed |-> FALSE, \* a registry read or write failed in the last
                                   \* merge or in the restore after it
              lastRegFailed |-> FALSE] \* one failed in the last call that used it
Finished(h, outcome) == [h EXCEPT !.prev = h.last, !.last = outcome]

\* ----------------------------------------------- ContentIntegrityChecker
\* _find_cc_plugins: the cc*.esl / .esp / .esm files matching CC_FILENAME_PATTERN
FindCCPlugins(pl) == LET present(i) == i \in pl IN SelectSeq(ItemOrder, present)

HasEither(ar, i) == ar[<<i, "Main">>] # None \/ ar[<<i, "Textures">>] # None
\* `main_ba2.exists() and texture_ba2.exists()`
HasBoth(ar, i) == ar[<<i, "Main">>] # None /\ ar[<<i, "Textures">>] # None

\* _validate_cc_content_integrity: <<valid_cc, orphaned_cc>>
ValidateCCContentIntegrity(pl, ar) ==
    LET found == FindCCPlugins(pl)
        complete(i) == HasBoth(ar, i)
        incomplete(i) == ~HasBoth(ar, i)
    IN <<SelectSeq(found, complete), SelectSeq(found, incomplete)>>

\* merge_cc_content, "Build list of BA2 files from valid CC plugins"
RECURSIVE CCFilesAll(_)
CCFilesAll(names) ==
    IF names = <<>> THEN <<>>
    ELSE <<<<Head(names), "Main">>, <<Head(names), "Textures">>>> \o CCFilesAll(Tail(names))
CCFilesOfEveryPlugin(valid, orphaned) == CCFilesAll(valid \o orphaned)
CCFiles(valid, orphaned) == CCFilesAll(valid)

MainBa2s(files) == LET t(k) == ~NameHasTexture(k) IN SelectSeq(files, t)
TextureBa2s(files) == LET t(k) == NameHasTexture(k) IN SelectSeq(files, t)
ExtractQueue(files) == MainBa2s(files) \o TextureBa2s(files)
ExtractDir(k) == IF NameHasTexture(k) THEN "Textures" ELSE "General"

\* ------------------------------------------------------ LoadOrderRegistry
\* l.strip()
Strip(l) == [l EXCEPT !.pad = FALSE]
LStripNothing(l) == l
\* line.lstrip("*")
LStripStar(l) == [l EXCEPT !.star = 0]
ReadLines(reg) == [j \in 1..Len(reg.lines) |-> Strip(reg.lines[j])]

RECURSIVE AddEntriesBare(_, _)
AddEntriesBare(lines, esl_names) ==
    IF esl_names = <<>> THEN lines
    ELSE LET esl == Head(esl_names)
             entry == Line(1, esl, FALSE)
             bare == Line(0, esl, FALSE)
         IN AddEntriesBare(IF entry \notin Range(lines) /\ bare \notin Range(lines)
                           THEN Append(lines, bare) ELSE lines,
                           Tail(esl_names))

\* the loop with `if entry not in lines` only
RECURSIVE AddEntriesUnlessEnabled(_, _)
AddEntriesUnlessEnabled(lines, esl_names) ==
    IF esl_names = <<>> THEN lines
    ELSE LET esl == Head(esl_names)
             entry == Line(1, esl, FALSE)
         IN AddEntriesUnlessEnabled(IF entry \notin Range(lines)
                                    THEN Append(lines, entry) ELSE lines,
                                    Tail(esl_names))

\* lines 1311-1316: append "*<name>" for every name listed neither so nor bare
RECURSIVE AddEntries(_, _)
AddEntries(lines, esl_names) ==
    IF esl_names = <<>> THEN lines
    ELSE LET esl == Head(esl_names)
             entry == Line(1, esl, FALSE)
             bare == Line(0, esl, FALSE)
         IN AddEntries(IF entry \notin Range(lines) /\ bare \notin Range(lines)
                       THEN Append(lines, entry) ELSE lines,
                       Tail(esl_names))

\* _add_to_plugins_txt with a file that cannot be read taken as an empty one
AddToPluginsTxtUnreadAsEmpty(reg, parent, esl_names, readOk, writeOk) ==
    IF ~parent THEN reg
    ELSE LET lines == IF reg.exists /\ readOk THEN ReadLines(reg) ELSE <<>>
             new == AddEntries(lines, esl_names)
         IN IF new # lines /\ writeOk THEN [exists |-> TRUE, lines |-> new] ELSE reg

\* _add_to_plugins_txt
AddToPluginsTxt(reg, parent, esl_names, readOk, writeOk) ==
    IF ~parent THEN reg
    ELSE IF reg.exists /\ ~readOk THEN reg
    ELSE LET lines == IF reg.exists THEN ReadLines(reg) ELSE <<>>
             new == AddEntries(lines, esl_names)
         IN IF new # lines /\ writeOk THEN [exists |-> TRUE, lines |-> new] ELSE reg

RemoveBareOnly(reg, parent, esl_names, readOk, writeOk) ==
    IF ~parent \/ ~reg.exists THEN reg
    ELSE IF ~readOk THEN reg
    ELSE LET lines == ReadLines(reg)
             kept(l) == l.star # 0 \/ l.name \notin esl_names
             new_lines == SelectSeq(lines, kept)
         IN IF new_lines # lines /\ writeOk THEN [exists |-> TRUE, lines |-> new_lines]
            ELSE reg

\* the open(..., 'r') and the open(..., 'w') of the two methods happen: only a
\* call that happens can be refused
RegistryIsRead(reg, parent) == parent /\ reg.exists
AddWrites(reg, parent, esl_names) ==
    parent /\ AddToPluginsTxt(reg, parent, esl_names, TRUE, TRUE) # reg

\* _remove_from_plugins_txt without the `if modified` before the write
RemoveAndAlwaysWrite(reg, parent, esl_names, readOk, writeOk) ==
    IF ~parent \/ ~reg.exists THEN reg
    ELSE IF ~readOk THEN reg
    ELSE LET lines == ReadLines(reg)
             kept(l) == \A n \in esl_names : LStripStar(l) # Line(0, n, FALSE)
             new_lines == SelectSeq(lines, kept)
         IN IF writeOk THEN [exists |-> TRUE, lines |-> new_lines] ELSE reg

\* _remove_from_plugins_txt
RemoveFromPluginsTxt(reg, parent, esl_names, readOk, writeOk) ==
    IF ~parent \/ ~reg.exists THEN reg
    ELSE IF ~readOk THEN reg
    ELSE LET lines == ReadLines(reg)
             kept(l) == \A n \in esl_names : LStripStar(l) # Line(0, n, FALSE)
             new_lines == SelectSeq(lines, kept)
         IN IF new_lines # lines /\ writeOk THEN [exists |-> TRUE, lines |-> new_lines]
            ELSE reg
RemoveWrites(reg, parent, esl_names) ==
    RemoveFromPluginsTxt(reg, parent, esl_names, TRUE, TRUE) # reg


\* ---------------------------------------------------------- BackupManager
CopyMainOnly(snap, files, n, ar) ==
    [files |-> [k \in ArchKeys |->
                  IF k[2] = "Main" /\ \E j \in 1..n : files[j] = k
                  THEN ar[k] ELSE snap.files[k]],
     hasManifest |-> snap.hasManifest,
     manifest |-> snap.manifest]

\* a snapshot directory after copy2 of the first n files of `files`
CopyInto(snap, files, n, ar) ==
    [files |-> [k \in ArchKeys |->
                  IF \E j \in 1..n : files[j] = k THEN ar[k] ELSE snap.files[k]],
     hasManifest |-> snap.hasManifest,
     manifest |-> snap.manifest]

\* the snapshot directories that are left when only those at `stay` are kept
RECURSIVE KeepAt(_, _, _)
KeepAt(bk, stay, j) ==
    IF j > Len(bk) THEN <<>>
    ELSE (IF j \in stay THEN <<bk[j]>> ELSE <<>>) \o KeepAt(bk, stay, j + 1)

\* latest_backup.glob("*")
BackupFiles(snap) ==
    {k \in ArchKeys : snap.files[k] # None}
    \cup (IF snap.hasManifest THEN {ManifestFile} ELSE {})
\* lines 1257-1261: the files copy2 puts in Data, all but moved_strings.txt
RestoredFiles(snap) == {f \in BackupFiles(snap) : f # ManifestFile}

PruneAll(bk, stay) == <<>>
\* lines 1263-1271: rmtree of every snapshot directory but the latest; those at
\* `stay` are the ones rmtree could not remove
PruneOlder(bk, stay) == KeepAt(bk, stay \cup {Len(bk)}, 1)

\* ------------------------------------------------------- extraction check
\* _verify_extraction that fails when the header cannot be read
VerifyExtractionHeaderRequired(hdrOk, expected, extracted) ==
    hdrOk /\ (expected = 0 \/ extracted # 0)
\* _verify_extraction, with _get_ba2_file_count: hdrOk is whether the header could
\* be read, expected its file count, extracted the files now under extract_dir
VerifyExtraction(hdrOk, expected, extracted) ==
    IF ~hdrOk THEN extracted # 0
    ELSE IF expected = 0 THEN TRUE
    ELSE extracted # 0

\* what an unpack that exits with code 0 may leave of an archive's files
ExtractOutcomes(files) == {files, {}} \cup {files \ {f} : f \in files}

\* ------------------------------------------------- ArchiveFormatValidator
MIN_HEADER == 24
Verdict(ok, msg) == [op |-> "verify", success |-> ok, raised |-> FALSE, error |-> msg]

\* the check of the name table offset with >= in place of >
VerifyBa2IntegrityAtEof(f, readOk) ==
    IF ~f.exists THEN Verdict(FALSE, "Archive not found")
    ELSE IF f.size < MIN_HEADER THEN Verdict(FALSE, "Archive too small")
    ELSE IF ~readOk THEN Verdict(FALSE, "Cannot read archive")
    ELSE IF f.magic # "BTDX" THEN Verdict(FALSE, "Invalid BA2 header")
    ELSE IF f.version \notin {1, 8} THEN Verdict(FALSE, "Unexpected BA2 version")
    ELSE IF f.archive_type \notin {"GNRL", "DX10"}
         THEN Verdict(FALSE, "Unknown archive type")
    ELSE IF f.name_table_offset >= f.size
         THEN Verdict(FALSE, "Corrupted archive (name table beyond EOF)")
    ELSE Verdict(TRUE, "Verified")

\* verify_ba2_integrity: (is_valid, message), the message by its fixed part.  The
\* bsarch listing at the end only reports a note.
VerifyBa2Integrity(f, readOk) ==
    IF ~f.exists THEN Verdict(FALSE, "Archive not found")
    ELSE IF f.size < MIN_HEADER THEN Verdict(FALSE, "Archive too small")
    ELSE IF ~readOk THEN Verdict(FALSE, "Cannot read archive")
    ELSE IF f.magic # "BTDX" THEN Verdict(FALSE, "Invalid BA2 header")
    ELSE IF f.version \notin {1, 8} THEN Verdict(FALSE, "Unexpected BA2 version")
    ELSE IF f.archive_type \notin {"GNRL", "DX10"}
         THEN Verdict(FALSE, "Unknown archive type")
    ELSE IF f.name_table_offset > f.size
         THEN Verdict(FALSE, "Corrupted archive (name table beyond EOF)")
    ELSE Verdict(TRUE, "Verified")

\* ------------------------------------------------------ PluginStubBuilder
\* bytes are numbers 0..255, byte strings are sequences of them
\* n.to_bytes(w, 'little')
RECURSIVE ToBytes(_, _)
ToBytes(n, w) == IF w = 0 THEN <<>> ELSE <<n % 256>> \o ToBytes(n \div 256, w - 1)
\* int.from_bytes(b, 'little')
RECURSIVE FromBytes(_)
FromBytes(b) == IF b = <<>> THEN 0 ELSE Head(b) + 256 * FromBytes(Tail(b))
\* a | b
RECURSIVE BitOr(_, _)
BitOr(a, b) ==
    IF a = 0 THEN b
    ELSE IF b = 0 THEN a
    ELSE (IF a % 2 = 1 \/ b % 2 = 1 THEN 1 ELSE 0) + 2 * BitOr(a \div 2, b \div 2)
Zeros(w) == [j \in 1..w |-> 0]

TES4 == <<84, 69, 83, 52>>
HEDR == <<72, 69, 68, 82>>
CNAM == <<67, 78, 65, 77>>
SNAM == <<83, 78, 65, 77>>
INTV == <<73, 78, 84, 86>>
MASTER_FLAG == 1
LIGHT_MASTER_FLAG == 512
\* b'CC-Packer\x00'
creator ==
    <<67, 67, 45, 80, 97, 99, 107, 101, 114, 0>>
\* b'Merged Creation Club Content - Localization Ready\x00'
summary ==
    <<77, 101, 114, 103, 101, 100, 32, 67, 114, 101, 97, 116, 105, 111, 110, 32,
    67, 108, 117, 98, 32, 67, 111, 110, 116, 101, 110, 116, 32, 45, 32, 76, 111,
    99, 97, 108, 105, 122, 97, 116, 105, 111, 110, 32, 82, 101, 97, 100, 121,
    0>>

\* lines 1394-1438: the bytearray before the record size is patched; nothing of
\* `path` goes into it
EslData(flags) ==
    TES4 \o Zeros(4) \o ToBytes(flags, 4) \o Zeros(4) \o Zeros(4) \o Zeros(4)
    \o HEDR \o <<12, 0>> \o <<0, 0, 128, 63>> \o Zeros(4) \o Zeros(4)
    \o CNAM \o ToBytes(Len(creator), 2) \o creator
    \o SNAM \o ToBytes(Len(summary), 2) \o summary
    \o INTV \o <<4, 0>> \o Zeros(4)
\* data[size_placeholder:size_placeholder+4] = record_size.to_bytes(4, 'little')
PatchSize(data) ==
    LET record_size == Len(data) - 24
    IN SubSeq(data, 1, 4) \o ToBytes(record_size, 4) \o SubSeq(data, 9, Len(data))

\* the bytes with the record size left at its placeholder
CreateVanillaEslUnpatched(path) == EslData(BitOr(MASTER_FLAG, LIGHT_MASTER_FLAG))
\* _create_vanilla_esl: the bytes written to `path`
CreateVanillaEsl(path) == PatchSize(EslData(BitOr(MASTER_FLAG, LIGHT_MASTER_FLAG)))

\* --------------------------------------------------------- TextureSplitter
MAX_SIZE == 7

ItemIndex(i) == CHOOSE j \in 1..Len(ItemOrder) : ItemOrder[j] = i
ExtRank(e) == IF e = ".dds" THEN 1 ELSE IF e = ".nif" THEN 2
              ELSE IF e = ".STRINGS" THEN 3 ELSE 4
FileRank(f) == 10 * ItemIndex(f.item) + ExtRank(f.ext)
\* rglob("*") over a staging directory
RECURSIVE RGlob(_)
RGlob(S) ==
    IF S = {} THEN <<>>
    ELSE LET f == CHOOSE x \in S : \A y \in S : FileRank(x) <= FileRank(y)
         IN <<f>> \o RGlob(S \ {f})

\* the loop with the size of the file alone compared to the maximum
RECURSIVE SplitLoopFileSizeOnly(_, _, _, _)
SplitLoopFileSizeOnly(rest, gs, current_group, current_size) ==
    IF rest = <<>>
    THEN IF current_group # <<>> THEN Append(gs, current_group) ELSE gs
    ELSE LET f == Head(rest) IN
         IF f.size > MAX_SIZE /\ current_group # <<>>
         THEN SplitLoopFileSizeOnly(Tail(rest), Append(gs, current_group), <<f>>, f.size)
         ELSE SplitLoopFileSizeOnly(Tail(rest), gs, Append(current_group, f),
                                    current_size + f.size)
\* the loop without the `if current_group: groups.append(current_group)` after it
RECURSIVE SplitLoopWithoutLast(_, _, _, _)
SplitLoopWithoutLast(rest, gs, current_group, current_size) ==
    IF rest = <<>>
    THEN gs
    ELSE LET f == Head(rest) IN
         IF current_size + f.size > MAX_SIZE /\ current_group # <<>>
         THEN SplitLoopWithoutLast(Tail(rest), Append(gs, current_group), <<f>>, f.size)
         ELSE SplitLoopWithoutLast(Tail(rest), gs, Append(current_group, f),
                                   current_size + f.size)
\* the loop with >= in place of >
RECURSIVE SplitLoopAtLimit(_, _, _, _)
SplitLoopAtLimit(rest, gs, current_group, current_size) ==
    IF rest = <<>>
    THEN IF current_group # <<>> THEN Append(gs, current_group) ELSE gs
    ELSE LET f == Head(rest) IN
         IF current_size + f.size >= MAX_SIZE /\ current_group # <<>>
         THEN SplitLoopAtLimit(Tail(rest), Append(gs, current_group), <<f>>, f.size)
         ELSE SplitLoopAtLimit(Tail(rest), gs, Append(current_group, f),
                               current_size + f.size)

\* the loop without the `and current_group` of its test
RECURSIVE SplitLoopAlwaysSplit(_, _, _, _)
SplitLoopAlwaysSplit(rest, gs, current_group, current_size) ==
    IF rest = <<>>
    THEN IF current_group # <<>> THEN Append(gs, current_group) ELSE gs
    ELSE LET f == Head(rest) IN
         IF current_size + f.size > MAX_SIZE
         THEN SplitLoopAlwaysSplit(Tail(rest), Append(gs, current_group), <<f>>, f.size)
         ELSE SplitLoopAlwaysSplit(Tail(rest), gs, Append(current_group, f),
                                   current_size + f.size)

\* lines 1088-1100
RECURSIVE SplitLoop(_, _, _, _)
SplitLoop(rest, gs, current_group, current_size) ==
    IF rest = <<>>
    THEN IF current_group # <<>> THEN Append(gs, current_group) ELSE gs
    ELSE LET f == Head(rest) IN
         IF current_size + f.size > MAX_SIZE /\ current_group # <<>>
         THEN SplitLoop(Tail(rest), Append(gs, current_group), <<f>>, f.size)
         ELSE SplitLoop(Tail(rest), gs, Append(current_group, f),
                        current_size + f.size)
SplitTextures(rest) == SplitLoop(rest, <<>>, <<>>, 0)

\* ------------------------------------------------------------------- Init
\* no call is running: the locals of merge_cc_content do not exist
NoLocals ==
    /\ valid_cc = <<>> /\ orphaned_cc = <<>> /\ cc_files = <<>>
    /\ current_backup = 0 /\ idx = 1
    /\ moved_strings = {} /\ sound_files = {}
    /\ created_esls = <<>> /\ created_archives = <<>> /\ groups = <<>>
    /\ texture_files = <<>>
Discard ==
    /\ valid_cc' = <<>> /\ orphaned_cc' = <<>> /\ cc_files' = <<>>
    /\ current_backup' = 0 /\ idx' = 1
    /\ moved_strings' = {} /\ sound_files' = {}
    /\ created_esls' = <<>> /\ created_archives' = <<>> /\ groups' = <<>>
    /\ texture_files' = <<>>

Config(pl, ar, mg, st, parent, reg) ==
    /\ plugins = pl /\ arch = ar /\ merged = mg /\ strings = st
    /\ regParent = parent /\ registry = reg
    /\ ba2_path = NoBa2File
    /\ esl_files = NoStubs
    /\ NoGui
    /\ loose = {}

\* the archives of a Data folder: those of the first item at content a, the Main
\* and the Textures archive of the second at contents m and t
Archives(a, m, t) == [k \in ArchKeys |-> IF k[1] = ItemOrder[1] THEN a
                                         ELSE IF k[1] # ItemOrder[2] THEN None
                                         ELSE IF k[2] = "Main" THEN m ELSE t]
Registry(lines) == [exists |-> TRUE, lines |-> lines]

Init ==
    /\ \/ Config({ItemOrder[1]}, Archives("v1", None, None), {}, {}, TRUE, NoRegistry)
       \/ Config(Downloads, Archives("v1", "v2", "v2"), {}, {}, TRUE,
                 Registry(<<Line(1, UserPlugin, TRUE)>>))
       \/ Config(Downloads, Archives("v1", "v2", None), {LegacyArchive, LegacyEsl},
                 {LegacyStrings}, TRUE,
                 Registry(<<Line(1, LegacyEsl, FALSE), Line(0, UserPlugin, FALSE)>>))
       \/ Config({ItemOrder[1]}, Archives("v2", None, None), {}, {}, FALSE, NoRegistry)
       \/ Config(Downloads, Archives("v2", "v1", "v1"), {}, {}, TRUE,
                 Registry(<<Line(0, MainEsl, FALSE)>>))
       \/ Config({}, Archives(None, None, None), {}, {}, TRUE, NoRegistry)
    /\ backups = <<>>
    /\ temp = NoTemp
    /\ pc = "Idle"
    /\ NoLocals
    /\ result = NoResult
    /\ pre = Installation
    /\ history = NoHistory
    /\ calls = 0 /\ faults = 0

\* ------------------------------------------------------- the environment
\* the user downloads a new item between two calls
Install(i) ==
    /\ Idle /\ i \notin plugins
    /\ plugins' = plugins \cup {i}
    /\ arch' = [k \in ArchKeys |-> IF k[1] = i THEN "v2" ELSE arch[k]]
    /\ pc' = "Idle"
    /\ Discard
    /\ result' = NoResult
    /\ pre' = <<plugins', arch', merged, strings, backups, temp, registry, loose>>
    /\ history' = Finished(history, "install")
    /\ UNCHANGED <<loose, merged, strings, backups, temp, registry, envVars, counters>>

\* --------------------------------------------------- merge_cc_content
Fail(msg) ==
    /\ pc' = "Failed"
    /\ result' = Failure("merge", msg)
    /\ history' = Finished(history, "mergeFail")

Continue(next) ==
    /\ pc' = next
    /\ UNCHANGED <<result, history>>

MergeBegin ==
    /\ Idle /\ calls < MaxCalls
    /\ calls' = calls + 1
    /\ pc' = "Validating"
    /\ pre' = Installation
    /\ Discard
    /\ result' = NoResult
    /\ history' = [history EXCEPT !.backedUp = {}, !.unpacked = {}, !.removed = {},
                                  !.regFailed = FALSE, !.lastRegFailed = FALSE]
    /\ UNCHANGED <<fsVars, envVars, faults>>

AlwaysSomethingToMerge(valid) == FALSE
\* line 908, `if not valid_cc`
NothingToMerge(valid) == valid = <<>>

\* lines 884-924: the path and tool checks, step 1 and the list of archives
MergeValidate ==
    /\ pc = "Validating"
    /\ \E pathOk \in BOOLEAN, bsarchOk \in BOOLEAN :
         LET v == ValidateCCContentIntegrity(plugins, arch) IN
         /\ valid_cc' = IF pathOk /\ bsarchOk THEN v[1] ELSE <<>>
         /\ orphaned_cc' = IF pathOk /\ bsarchOk THEN v[2] ELSE <<>>
         /\ IF ~pathOk THEN Fail("Data folder not found.") /\ cc_files' = <<>>
            ELSE IF ~bsarchOk THEN Fail("bsarch.exe not found.") /\ cc_files' = <<>>
            ELSE IF NothingToMerge(v[1])
                 THEN /\ cc_files' = <<>>
                      /\ IF \E f \in merged : f.prefix = "CCPacked" /\ f.ext = "ba2"
                         THEN Fail("Only previously merged (CCPacked) archives found.")
                         ELSE Fail("No Creation Club content found.")
                 ELSE /\ cc_files' = CCFiles(v[1], v[2])
                      /\ Continue("CleaningOld")
    /\ UNCHANGED <<fsVars, envVars, current_backup, idx, moved_strings, sound_files,
                   created_esls, created_archives, groups, texture_files, pre, counters>>

MergeCleanOldAndOriginals ==
    /\ pc = "CleaningOld"
    /\ merged' = {}
    /\ strings' = {s \in strings : ~HasMergedPrefix(s)}
    /\ arch' = [k \in ArchKeys |-> IF k \in Range(cc_files) THEN None ELSE arch[k]]
    /\ Continue("BackingUp")
    /\ UNCHANGED <<plugins, loose, backups, temp, registry, envVars, localVars, pre, counters>>

\* lines 931-949, step 2: sweep the output of earlier merges
MergeCleanOld ==
    /\ pc = "CleaningOld"
    /\ \E keep \in FailSets(merged),
          keepS \in FailSets({s \in strings : HasMergedPrefix(s)}) :
         /\ Cardinality(keep) + Cardinality(keepS) <= MaxFaults - faults
         /\ merged' = keep
         /\ strings' = {s \in strings : ~HasMergedPrefix(s)} \cup keepS
         /\ faults' = faults + Cardinality(keep) + Cardinality(keepS)
    /\ Continue("BackingUp")
    /\ UNCHANGED <<plugins, loose, arch, backups, temp, registry, envVars, localVars,
                   pre, calls>>

BackupCompletedAnyway(n, files) == TRUE
\* the loop of lines 957-958 ends normally only after the last copy2
BackupCompleted(n, files) == n = Len(files)

\* lines 951-958, step 3: copy2 of every archive of cc_files into a new snapshot;
\* an OSError of copy2 is not caught and leaves the method
MergeBackup ==
    /\ pc = "BackingUp"
    /\ current_backup' = Len(backups) + 1
    /\ \E n \in 0..Len(cc_files) :
         /\ n < Len(cc_files) => MayFail
         /\ backups' = Append(backups, CopyInto(EmptySnapshot, cc_files, n, arch))
         /\ IF BackupCompleted(n, cc_files)
            THEN /\ pc' = "PreparingTemp"
                 /\ result' = result
                 /\ history' = [history EXCEPT !.backedUp = {cc_files[j] : j \in 1..n}]
                 /\ faults' = faults
            ELSE /\ pc' = "Raised"
                 /\ result' = Exception("merge", "copy2 failed")
                 /\ history' = Finished([history EXCEPT
                                   !.backedUp = {cc_files[j] : j \in 1..n}], "mergeFail")
                 /\ faults' = faults + 1
    /\ UNCHANGED <<plugins, loose, arch, merged, strings, temp, registry, envVars, valid_cc,
                   orphaned_cc, cc_files, idx, moved_strings, sound_files, created_esls,
                   created_archives, groups, texture_files, pre, calls>>

\* lines 960-971: a fresh CC_Temp with General and Textures
MergePrepareTemp ==
    /\ pc = "PreparingTemp"
    /\ temp' = [NoTemp EXCEPT !.exists = TRUE]
    /\ idx' = 1
    /\ Continue("Extracting")
    /\ UNCHANGED <<plugins, loose, arch, merged, strings, backups, registry, envVars,
                   valid_cc, orphaned_cc, cc_files, current_backup, moved_strings,
                   sound_files, created_esls, created_archives, groups, texture_files, pre, counters>>

\* lines 973-1001, step 4: unpack one archive and verify it, main archives first
MergeExtract ==
    /\ pc = "Extracting"
    /\ LET queue == ExtractQueue(cc_files)
           k == queue[idx]
           files == ArchiveFiles(k, arch[k])
           dir == ExtractDir(k)
       IN \E err \in BOOLEAN, hdrOk \in BOOLEAN, got \in ExtractOutcomes(files) :
            LET cost == (IF err THEN 1 ELSE 0) + (IF hdrOk THEN 0 ELSE 1)
                        + (IF got # files /\ ~err THEN 1 ELSE 0)
                staged == IF dir = "General" THEN temp.General \cup got
                          ELSE temp.Textures \cup got
            IN /\ cost <= MaxFaults - faults
               /\ err => got = {} /\ hdrOk
               /\ faults' = faults + cost
               /\ IF err
                  THEN /\ Fail("BSArch reported an error")
                       /\ UNCHANGED <<temp, idx>>
                  ELSE /\ temp' = IF dir = "General"
                                  THEN [temp EXCEPT !.General = staged,
                                          !.GeneralDirs = @ \cup {DirOf(f) : f \in got}]
                                  ELSE [temp EXCEPT !.Textures = staged]
                       /\ IF ~VerifyExtraction(hdrOk, Cardinality(files), Cardinality(staged))
                          THEN /\ Fail("Verification failed")
                               /\ idx' = idx
                          ELSE /\ idx' = idx + 1
                               /\ pc' = IF idx = Len(queue) THEN "Classifying"
                                        ELSE "Extracting"
                               /\ result' = result
                               /\ history' = [history EXCEPT
                                                !.unpacked = @ \cup {<<k, dir>>}]
    /\ UNCHANGED <<plugins, loose, arch, merged, strings, backups, registry, envVars,
                   valid_cc, orphaned_cc, cc_files, current_backup, moved_strings,
                   sound_files, created_esls, created_archives, groups, texture_files, pre, calls>>

\* lines 1003-1027: string files leave staging for Data/Strings (copy, then
\* unlink; a failure of either is logged) and are listed in the manifest
MergeClassifyStrings ==
    /\ pc = "Classifying"
    /\ LET found == {f \in temp.General : IsStringExt(f.ext)} IN
       \E stuck \in FailSets(found) : \E copied \in SUBSET stuck :
         LET moved == found \ stuck IN
         /\ strings' = strings \cup {StringsName(f) : f \in moved \cup copied}
         /\ temp' = [temp EXCEPT !.General = @ \ moved]
         /\ moved_strings' = {StringsName(f) : f \in moved}
         /\ backups' = IF moved # {}
                       THEN [backups EXCEPT ![current_backup] =
                               [@ EXCEPT !.hasManifest = TRUE,
                                         !.manifest = {StringsName(f) : f \in moved}]]
                       ELSE backups
         /\ faults' = faults + Cardinality(stuck)
    /\ Continue("SeparatingSounds")
    /\ UNCHANGED <<plugins, loose, arch, merged, registry, envVars, valid_cc, orphaned_cc,
                   cc_files, current_backup, idx, sound_files, created_esls,
                   created_archives, groups, texture_files, pre, calls>>

\* lines 1029-1041, step 5: sound files move to CC_Temp/Sounds
MergeSeparateSounds ==
    /\ pc = "SeparatingSounds"
    /\ LET found == {f \in temp.General : IsSoundExt(f.ext)} IN
         /\ temp' = [temp EXCEPT !.General = @ \ found, !.Sounds = found]
         /\ sound_files' = found
    /\ Continue("RepackSounds")
    /\ UNCHANGED <<plugins, loose, arch, merged, strings, backups, registry, envVars, valid_cc,
                   orphaned_cc, cc_files, current_backup, idx, moved_strings,
                   created_esls, created_archives, groups, texture_files, pre, counters>>

PackStepWithRollback(wanted, archive, esl, next) ==
    IF ~wanted
    THEN /\ Continue(next)
         /\ UNCHANGED <<merged, created_archives, created_esls, faults>>
    ELSE \E ok \in BOOLEAN :
           /\ ~ok => MayFail
           /\ faults' = IF ok THEN faults ELSE faults + 1
           /\ merged' = IF ok THEN merged \cup {archive, esl}
                        ELSE merged \ (Range(created_archives) \cup Range(created_esls))
           /\ created_archives' = IF ok THEN Append(created_archives, archive)
                                  ELSE created_archives
           /\ created_esls' = IF ok THEN Append(created_esls, esl) ELSE created_esls
           /\ IF ok THEN Continue(next) ELSE Fail("BSArch reported an error")

PackStepWithoutStub(wanted, archive, esl, next) ==
    IF ~wanted
    THEN /\ Continue(next)
         /\ UNCHANGED <<merged, created_archives, created_esls, faults>>
    ELSE \E ok \in BOOLEAN, begun \in BOOLEAN :
           /\ ~ok => MayFail
           /\ ok => begun
           /\ faults' = IF ok THEN faults ELSE faults + 1
           /\ merged' = IF begun THEN merged \cup {archive} ELSE merged
           /\ created_archives' = IF ok THEN Append(created_archives, archive)
                                  ELSE created_archives
           /\ created_esls' = created_esls
           /\ IF ok THEN Continue(next) ELSE Fail("BSArch reported an error")

\* one _pack_*_archive call and the stub that follows it: bsarch may fail (and may
\* have begun the archive), else the archive and its stub are in Data
PackStep(wanted, archive, esl, next) ==
    IF ~wanted
    THEN /\ Continue(next)
         /\ UNCHANGED <<merged, created_archives, created_esls, faults>>
    ELSE \E ok \in BOOLEAN, begun \in BOOLEAN :
           /\ ~ok => MayFail
           /\ ok => begun
           /\ faults' = IF ok THEN faults ELSE faults + 1
           /\ merged' = IF ok THEN merged \cup {archive, esl}
                        ELSE IF begun THEN merged \cup {archive} ELSE merged
           /\ created_archives' = IF ok THEN Append(created_archives, archive)
                                  ELSE created_archives
           /\ created_esls' = IF ok THEN Append(created_esls, esl) ELSE created_esls
           /\ IF ok THEN Continue(next) ELSE Fail("BSArch reported an error")

\* lines 1045-1060, step 6
MergeRepackSounds ==
    /\ pc = "RepackSounds"
    /\ PackStep(sound_files # {}, SoundsArchive, SoundsEsl, "RepackMain")
    /\ UNCHANGED <<plugins, loose, arch, strings, backups, temp, registry, envVars, valid_cc,
                   orphaned_cc, cc_files, current_backup, idx, moved_strings,
                   sound_files, groups, texture_files, pre, calls>>

\* lines 1062-1077, step 7: `if list(general_dir.rglob("*"))` sees directories too
MergeRepackMain ==
    /\ pc = "RepackMain"
    /\ PackStep(temp.General # {} \/ temp.GeneralDirs # {}, MainArchive, MainEsl,
                "SplittingTextures")
    /\ UNCHANGED <<plugins, loose, arch, strings, backups, temp, registry, envVars, valid_cc,
                   orphaned_cc, cc_files, current_backup, idx, moved_strings,
                   sound_files, groups, texture_files, pre, calls>>

\* lines 1079-1100, step 8: the texture groups
MergeSplitTextures ==
    /\ pc = "SplittingTextures"
    /\ texture_files' = RGlob(temp.Textures)
    /\ groups' = SplitTextures(texture_files')
    /\ idx' = 1
    /\ Continue(IF groups' = <<>> THEN "RegisteringPlugins" ELSE "RepackTextures")
    /\ UNCHANGED <<fsVars, envVars, valid_cc, orphaned_cc, cc_files, current_backup,
                   moved_strings, sound_files, created_esls, created_archives, pre,
                   counters>>

\* lines 1102-1132: one texture group: split_<idx>, its archive and its stub
MergeRepackTextures ==
    /\ pc = "RepackTextures"
    /\ temp' = [temp EXCEPT !.splits = Append(@, Range(groups[idx]))]
    /\ PackStep(TRUE, TextureArchive(idx), TextureEsl(idx),
                IF idx = Len(groups) THEN "RegisteringPlugins" ELSE "RepackTextures")
    /\ idx' = idx + 1
    /\ UNCHANGED <<plugins, loose, arch, strings, backups, registry, envVars, valid_cc,
                   orphaned_cc, cc_files, current_backup, moved_strings, sound_files,
                   groups, texture_files, pre, calls>>

MergeRegisterAndReturn ==
    /\ pc = "RegisteringPlugins"
    /\ registry' = AddToPluginsTxt(registry, regParent, created_esls, TRUE, TRUE)
    /\ pc' = "Done"
    /\ result' = Ok("merge")
    /\ history' = Finished(history, "mergeOk")
    /\ UNCHANGED <<plugins, loose, arch, merged, strings, backups, temp, envVars, localVars,
                   pre, counters>>

\* lines 1136-1138, step 9
MergeRegister ==
    /\ pc = "RegisteringPlugins"
    /\ \E readOk \in BOOLEAN, writeOk \in BOOLEAN :
         LET cost == (IF readOk THEN 0 ELSE 1) + (IF writeOk THEN 0 ELSE 1) IN
         /\ cost <= MaxFaults - faults
         /\ ~readOk => RegistryIsRead(registry, regParent)
         /\ ~writeOk => readOk /\ AddWrites(registry, regParent, created_esls)
         /\ faults' = faults + cost
         /\ registry' = AddToPluginsTxt(registry, regParent, created_esls, readOk, writeOk)
         /\ history' = [history EXCEPT !.regFailed = cost > 0,
                                       !.lastRegFailed = cost > 0]
    /\ pc' = "CleaningUp"
    /\ UNCHANGED <<plugins, loose, arch, merged, strings, backups, temp, envVars, localVars,
                   result, pre, calls>>

\* lines 1140-1161, step 10: unlink the originals, remove staging, report
MergeCleanup ==
    /\ pc = "CleaningUp"
    /\ \E keep \in FailSets(Range(cc_files)), tempStays \in BOOLEAN :
         LET cost == Cardinality(keep) + (IF tempStays THEN 1 ELSE 0)
             gone == Range(cc_files) \ keep
         IN /\ cost <= MaxFaults - faults
            /\ faults' = faults + cost
            /\ arch' = [k \in ArchKeys |-> IF k \in gone THEN None ELSE arch[k]]
            /\ temp' = IF tempStays THEN temp ELSE NoTemp
            /\ history' = Finished([history EXCEPT
                             !.removed = gone,
                             !.deleted = @ \cup {<<k, arch[k]>> : k \in gone}], "mergeOk")
    /\ pc' = "Done"
    /\ result' = Ok("merge")
    /\ UNCHANGED <<plugins, loose, merged, strings, backups, registry, envVars, localVars,
                   pre, calls>>

\* ------------------------------------------------------- restore_backup
MergedEsls(files) == {f \in files : f.ext = "esl"}

RestoreReturn(res) ==
    /\ pc' = "Idle"
    /\ result' = res
    /\ calls' = calls + 1
    /\ Discard
    /\ UNCHANGED <<envVars, pre>>

\* restore_backup with the two checks made after the merged files were deleted
RestoreNoBackupAfterSweep ==
    /\ Idle /\ calls < MaxCalls
    /\ \E exists \in BOOLEAN :
         /\ exists => backups = <<>>
         /\ RestoreReturn(Failure("restore", IF exists THEN "No backups found."
                                             ELSE "No backup folder found."))
    /\ history' = Finished(history, "restoreFail")
    /\ merged' = {}
    /\ UNCHANGED <<plugins, loose, arch, strings, backups, temp, registry, faults>>

\* lines 1202-1211: Data/CC_Backup does not exist (no merge has made it, or
\* fo4_path is not the installation), or it exists and holds no snapshot directory
RestoreNoBackup ==
    /\ Idle /\ calls < MaxCalls
    /\ \E exists \in BOOLEAN :
         /\ exists => backups = <<>>
         /\ RestoreReturn(Failure("restore", IF exists THEN "No backups found."
                                             ELSE "No backup folder found."))
    /\ history' = Finished(history, "restoreFail")
    /\ UNCHANGED <<fsVars, faults>>

\* lines 1216-1222: an unlink of a merged file that fails is not caught
RestoreRaises ==
    /\ Idle /\ calls < MaxCalls /\ backups # <<>> /\ MayFail
    /\ \E f \in merged : \E gone \in {{}, merged \ {f}} :
         merged' = merged \ gone
    /\ faults' = faults + 1
    /\ RestoreReturn(Exception("restore", "unlink failed"))
    /\ history' = Finished(history, "restoreFail")
    /\ UNCHANGED <<plugins, loose, arch, strings, backups, temp, registry>>

\* lines 1216-1261 with a copy2 of line 1261 that fails, which is not caught: the
\* merged files are gone, the registry is updated, and the files of the snapshot
\* before the one that failed are back in Data
RestoreCopyRaises ==
    /\ Idle /\ calls < MaxCalls /\ backups # <<>> /\ MayFail
    /\ LET latest_backup == backups[Len(backups)]
           merged_esls == MergedEsls(merged)
           listed == IF latest_backup.hasManifest
                     THEN latest_backup.manifest \cap strings ELSE {}
           held(k) == k \in RestoredFiles(latest_backup)
           backup_files == SelectSeq(CCFilesAll(ItemOrder), held)
       IN \E n \in 0..(Len(backup_files) - 1) :
            /\ merged' = {}
            /\ strings' = {s \in strings : ~HasMergedPrefix(s)} \ listed
            /\ registry' = RemoveFromPluginsTxt(registry, regParent, merged_esls,
                                                TRUE, TRUE)
            /\ arch' = [k \in ArchKeys |->
                          IF \E j \in 1..n : backup_files[j] = k
                          THEN latest_backup.files[k] ELSE arch[k]]
    /\ faults' = faults + 1
    /\ RestoreReturn(Exception("restore", "copy2 failed"))
    /\ history' = Finished(history, "restoreFail")
    /\ UNCHANGED <<plugins, loose, backups, temp>>

\* lines 1208-1273
Restore ==
    /\ Idle /\ calls < MaxCalls /\ backups # <<>>
    /\ LET latest_backup == backups[Len(backups)]
           merged_esls == MergedEsls(merged)
           listed == IF latest_backup.hasManifest
                     THEN latest_backup.manifest \cap strings ELSE {}
           older == 1..(Len(backups) - 1)
       IN \E keepS \in FailSets({s \in strings : HasMergedPrefix(s)}),
             keepM \in FailSets(listed), keepB \in FailSets(older),
             readOk \in BOOLEAN, writeOk \in BOOLEAN :
            LET cost == Cardinality(keepS) + Cardinality(keepM) + Cardinality(keepB)
                        + (IF readOk THEN 0 ELSE 1) + (IF writeOk THEN 0 ELSE 1)
            IN /\ cost <= MaxFaults - faults
               /\ ~readOk => RegistryIsRead(registry, regParent)
               /\ ~writeOk => readOk /\ RemoveWrites(registry, regParent, merged_esls)
               /\ faults' = faults + cost
               /\ merged' = {}
               /\ strings' = ({s \in strings : ~HasMergedPrefix(s)} \ (listed \ keepM))
                             \cup keepS
               /\ registry' = RemoveFromPluginsTxt(registry, regParent, merged_esls,
                                                   readOk, writeOk)
               /\ arch' = [k \in ArchKeys |->
                             IF k \in RestoredFiles(latest_backup)
                             THEN latest_backup.files[k] ELSE arch[k]]
               /\ loose' = loose \cup (RestoredFiles(latest_backup) \ ArchKeys)
               /\ backups' = PruneOlder(backups, keepB)
               /\ history' = Finished([history EXCEPT
                                !.regFailed = @ \/ ~readOk \/ ~writeOk,
                                !.lastRegFailed = ~readOk \/ ~writeOk],
                                "restoreOk")
    /\ RestoreReturn(Ok("restore"))
    /\ UNCHANGED <<plugins, temp>>

Next ==
    \/ \E i \in Downloads : Install(i)
    \/ MergeBegin
    \/ MergeValidate
    \/ MergeCleanOld
    \/ MergeBackup
    \/ MergePrepareTemp
    \/ MergeExtract
    \/ MergeClassifyStrings
    \/ MergeSeparateSounds
    \/ MergeRepackSounds
    \/ MergeRepackMain
    \/ MergeSplitTextures
    \/ MergeRepackTextures
    \/ MergeRegister
    \/ MergeCleanup
    \/ RestoreNoBackup
    \/ RestoreRaises
    \/ RestoreCopyRaises
    \/ Restore

Spec == Init /\ [][Next]_vars

\* ------------------------------------------------ a fresh two-item Data
\* Two items of the same make (a mesh in Main, 2 GiB of textures in Textures, no
\* sound and no string file), nothing merged before, and a registry without
\* entries of merged stubs.
TwoItems == {ItemOrder[1], ItemOrder[3]}
TwoItemArchives == [k \in ArchKeys |-> IF k[1] \in TwoItems THEN "v3" ELSE None]
TwoItemInit ==
    /\ \E reg \in {NoRegistry,
                    Registry(<<Line(0, UserPlugin, TRUE), Line(1, UserPlugin, FALSE)>>)} :
         Config(TwoItems, TwoItemArchives, {}, {}, TRUE, reg)
    /\ backups = <<>>
    /\ temp = NoTemp
    /\ pc = "Idle"
    /\ NoLocals
    /\ result = NoResult
    /\ pre = Installation
    /\ history = NoHistory
    /\ calls = 0 /\ faults = 0
TwoItemSpec == TwoItemInit /\ [][Next]_vars

\* ---------------------------------------- the registry methods alone
\* _add_to_plugins_txt and _remove_from_plugins_txt called, in any order and any
\* number of times, with one list of names (held in created_esls) on a plugins.txt
\* of up to MaxRegistryLines lines: lines with no, one or two leading stars, with
\* or without surrounding blanks, naming a merged stub or a plugin of the user
NameLists == UNION {[1..n -> {MainEsl, TextureEsl(1)}] : n \in 0..MaxNames}
RegistryLines == {Line(st, n, p) : st \in 0..2, n \in {MainEsl, UserPlugin}, p \in BOOLEAN}
RegistryFiles ==
    {NoRegistry} \cup {Registry(l) : l \in UNION {[1..n -> RegistryLines]
                                                   : n \in 0..MaxRegistryLines}}
RegistryInit ==
    /\ \E parent \in BOOLEAN, reg \in RegistryFiles :
         /\ reg.exists => parent
         /\ Config({}, Archives(None, None, None), {}, {}, parent, reg)
    /\ backups = <<>>
    /\ temp = NoTemp
    /\ pc = "Registry"
    /\ valid_cc = <<>> /\ orphaned_cc = <<>> /\ cc_files = <<>>
    /\ current_backup = 0 /\ idx = 1
    /\ moved_strings = {} /\ sound_files = {}
    /\ created_esls \in NameLists
    /\ created_archives = <<>> /\ groups = <<>> /\ texture_files = <<>>
    /\ result = NoResult
    /\ pre = Installation
    /\ history = NoHistory
    /\ calls = 0 /\ faults = 0
\* a call of one of the two methods: it returns None whatever happens
RegistryCall(op, reg, failed) ==
    /\ registry' = reg
    /\ pre' = Installation
    /\ result' = Ok(op)
    /\ history' = Finished([history EXCEPT !.regFailed = failed \/ @,
                                           !.lastRegFailed = failed], op)
    /\ UNCHANGED <<plugins, loose, arch, merged, strings, backups, temp, envVars, pc,
                   localVars, counters>>
RegistryAdd ==
    /\ pc = "Registry"
    /\ \E readOk \in BOOLEAN, writeOk \in BOOLEAN :
         /\ ~readOk => RegistryIsRead(registry, regParent)
         /\ ~writeOk => readOk /\ AddWrites(registry, regParent, created_esls)
         /\ RegistryCall("add", AddToPluginsTxt(registry, regParent, created_esls,
                                                readOk, writeOk), ~readOk \/ ~writeOk)
RegistryRemove ==
    /\ pc = "Registry"
    /\ \E readOk \in BOOLEAN, writeOk \in BOOLEAN :
         /\ ~readOk => RegistryIsRead(registry, regParent)
         /\ ~writeOk => readOk /\ RemoveWrites(registry, regParent, Range(created_esls))
         /\ RegistryCall("remove",
                         RemoveFromPluginsTxt(registry, regParent, Range(created_esls),
                                              readOk, writeOk), ~readOk \/ ~writeOk)
RegistryNext == RegistryAdd \/ RegistryRemove
RegistrySpec == RegistryInit /\ [][RegistryNext]_vars

\* ------------------------------------- the texture splitting loop alone
\* lines 1085-1100 run on an arbitrary list of (file, size) pairs: up to
\* MaxTextureFiles files of different paths, in any order, each of 0..MaxFileSize GiB
TextureFile(i, s) == InnerFile(i, ".dds", s)
TextureLists ==
    {l \in UNION {[1..n -> {TextureFile(i, sz) : i \in Items, sz \in 0..MaxFileSize}]
                    : n \in 0..MaxTextureFiles} :
        \A j, h \in 1..Len(l) : l[j].item = l[h].item => j = h}
SplitterInit ==
    /\ Config({}, Archives(None, None, None), {}, {}, TRUE, NoRegistry)
    /\ backups = <<>>
    /\ temp = [NoTemp EXCEPT !.exists = TRUE]
    /\ pc = "SplittingTextures"
    /\ valid_cc = <<>> /\ orphaned_cc = <<>> /\ cc_files = <<>>
    /\ current_backup = 0 /\ idx = 1
    /\ moved_strings = {} /\ sound_files = {}
    /\ created_esls = <<>> /\ created_archives = <<>> /\ groups = <<>>
    /\ texture_files \in TextureLists
    /\ result = NoResult
    /\ pre = Installation
    /\ history = NoHistory
    /\ calls = 0 /\ faults = 0
SplitterRun ==
    /\ pc = "SplittingTextures"
    /\ groups' = SplitTextures(texture_files)
    /\ pc' = "TexturesSplit"
    /\ UNCHANGED <<fsVars, envVars, valid_cc, orphaned_cc, cc_files, current_backup, idx,
                   moved_strings, sound_files, created_esls, created_archives,
                   texture_files, result, pre, history, counters>>
\* lines 1102-1132 for the group at idx: split_<idx>, the archive and its stub
SplitterPack ==
    /\ pc = "TexturesSplit" /\ idx \in 1..Len(groups)
    /\ temp' = [temp EXCEPT !.splits = Append(@, Range(groups[idx]))]
    /\ PackStep(TRUE, TextureArchive(idx), TextureEsl(idx), "TexturesSplit")
    /\ idx' = idx + 1
    /\ UNCHANGED <<plugins, loose, arch, strings, backups, registry, envVars, valid_cc,
                   orphaned_cc, cc_files, current_backup, moved_strings, sound_files,
                   groups, texture_files, pre, calls>>
SplitterNext == SplitterRun \/ SplitterPack
SplitterSpec == SplitterInit /\ [][SplitterNext]_vars

\* --------------------------------------- verify_ba2_integrity alone
\* the method called once on a file: missing, shorter than the header, of exactly
\* the header or up to MaxTail bytes longer; with the magic of a BA2 or of a BSA;
\* of a version of Fallout 4, of Fallout 76 or of none; of a general, a texture
\* or another type; its name table at the start, before, at or after the end
Ba2Files ==
    {NoBa2File} \cup
    {Ba2File(TRUE, sz, m, v, t, o) :
        sz \in {0, MIN_HEADER - 1} \cup (MIN_HEADER..(MIN_HEADER + MaxTail)),
        m \in {"BTDX", "BSA"}, v \in {0, 1, 7, 8}, t \in {"GNRL", "DX10", "GNMF"},
        o \in {0} \cup ((MIN_HEADER - 1)..(MIN_HEADER + MaxTail + 1))}
IntegrityInit ==
    /\ plugins = {} /\ arch = Archives(None, None, None) /\ merged = {}
    /\ strings = {} /\ regParent = TRUE /\ registry = NoRegistry /\ loose = {}
    /\ ba2_path \in Ba2Files
    /\ esl_files = NoStubs
    /\ NoGui
    /\ backups = <<>>
    /\ temp = NoTemp
    /\ pc = "Verifying"
    /\ NoLocals
    /\ result = NoResult
    /\ pre = Installation
    /\ history = NoHistory
    /\ calls = 0 /\ faults = 0
IntegrityCheck ==
    /\ pc = "Verifying"
    /\ \E readOk \in BOOLEAN :
         result' = VerifyBa2Integrity(ba2_path, readOk)
    /\ pc' = "Verified"
    /\ UNCHANGED <<fsVars, envVars, localVars, pre, history, counters>>
IntegrityNext == IntegrityCheck
IntegritySpec == IntegrityInit /\ [][IntegrityNext]_vars

\* ---------------------------------------- _create_vanilla_esl alone
\* the method called on any of the stub paths, any number of times, in any order
StubInit ==
    /\ Config({}, Archives(None, None, None), {}, {}, TRUE, NoRegistry)
    /\ backups = <<>>
    /\ temp = NoTemp
    /\ pc = "WritingStubs"
    /\ NoLocals
    /\ result = NoResult
    /\ pre = Installation
    /\ history = NoHistory
    /\ calls = 0 /\ faults = 0
StubWrite ==
    /\ pc = "WritingStubs"
    /\ \E path \in StubPaths :
         esl_files' = [esl_files EXCEPT ![path] = CreateVanillaEsl(path)]
    /\ UNCHANGED <<fsVars, regParent, ba2_path, guiVars, pc, localVars, result, pre,
                   history, counters>>
StubNext == StubWrite
StubSpec == StubInit /\ [][StubNext]_vars

\* ------------------------------- _delete_orphaned_cc_content alone
\* start_merge of the window on any Data folder: every set of plugin stubs and of
\* item archives.  It validates, has _delete_orphaned_cc_content delete what
\* belongs to the orphaned items it found, any of the unlinks failing, and
\* validates again.
Stub(i) == <<i, "Stub">>
\* every cc file of Data, whatever item it belongs to
FilesToDeleteOfAll(names, pl, ar) ==
    {Stub(i) : i \in pl} \cup {k \in ArchKeys : ar[k] # None}
\* lines 790-805: files_to_delete, over all the names
FilesToDelete(names, pl, ar) ==
    {Stub(i) : i \in Range(names) \cap pl}
    \cup {k \in ArchKeys : k[1] \in Range(names) /\ ar[k] # None}
\* the (success, message) the method returns, the message by its fixed part
Deletion(ok, msg) ==
    [op |-> "delete_orphaned", success |-> ok, raised |-> FALSE, error |-> msg]
OrphanInit ==
    /\ \E pl \in SUBSET Items, ar \in [ArchKeys -> {None, "v1"}] :
         /\ Config(pl, ar, {}, {}, TRUE, NoRegistry)
         /\ valid_cc = ValidateCCContentIntegrity(pl, ar)[1]
         /\ orphaned_cc = ValidateCCContentIntegrity(pl, ar)[2]
    /\ backups = <<>>
    /\ temp = NoTemp
    /\ pc = "OrphansFound"
    /\ cc_files = <<>> /\ current_backup = 0 /\ idx = 1
    /\ moved_strings = {} /\ sound_files = {}
    /\ created_esls = <<>> /\ created_archives = <<>> /\ groups = <<>>
    /\ texture_files = <<>>
    /\ result = NoResult
    /\ pre = Installation
    /\ history = NoHistory
    /\ calls = 0 /\ faults = 0
\* _delete_orphaned_cc_content(data_path, orphaned_cc)
DeleteOrphanedCCContent ==
    /\ pc = "OrphansFound"
    /\ LET files_to_delete == FilesToDelete(orphaned_cc, plugins, arch) IN
       \E failed_deletions \in SUBSET files_to_delete :
         LET deleted == files_to_delete \ failed_deletions IN
         /\ plugins' = {i \in plugins : Stub(i) \notin deleted}
         /\ arch' = [k \in ArchKeys |-> IF k \in deleted THEN None ELSE arch[k]]
         /\ result' = IF orphaned_cc = <<>>
                       THEN Deletion(TRUE, "No orphaned content to delete.")
                       ELSE IF failed_deletions # {}
                       THEN Deletion(FALSE, "deletions failed")
                       ELSE Deletion(TRUE, "Successfully deleted")
    /\ pc' = "OrphansDeleted"
    /\ UNCHANGED <<loose, merged, strings, backups, temp, registry, envVars, localVars,
                   pre, history, counters>>
\* main.py line 727: the validation after the deletion
Revalidate ==
    /\ pc = "OrphansDeleted"
    /\ valid_cc' = ValidateCCContentIntegrity(plugins, arch)[1]
    /\ orphaned_cc' = ValidateCCContentIntegrity(plugins, arch)[2]
    /\ pc' = "Revalidated"
    /\ UNCHANGED <<fsVars, envVars, cc_files, current_backup, idx, moved_strings,
                   sound_files, created_esls, created_archives, groups, texture_files,
                   result, pre, history, counters>>
OrphanNext == DeleteOrphanedCCContent \/ Revalidate
OrphanSpec == OrphanInit /\ [][OrphanNext]_vars

\* ------------------------------------------------- MainWindow (src/main.py)
\* The window with its two buttons, the Browse button, and the worker threads.
\* A worker is a QThread whose run() calls merge_cc_content or restore_backup and
\* then emits finished(success, message); the signal is handled by on_finished in
\* the thread of the window, after whatever that thread is doing.  What the
\* window reads from the disk (whether the path exists, what
\* _check_existing_backup and _validate_cc_content_integrity find, what the
\* user answers in a dialog) is an input of the handler that reads it.
Worker(op) == [op |-> op]
Signal(op, success) == [op |-> op, success |-> success]
RemoveAt(seq, j) == SubSeq(seq, 1, j - 1) \o SubSeq(seq, j + 1, Len(seq))
InFlight == Len(workers) + Len(finished)

GuiInit ==
    /\ plugins = {} /\ arch = Archives(None, None, None) /\ merged = {}
    /\ strings = {} /\ regParent = TRUE /\ registry = NoRegistry /\ loose = {}
    /\ ba2_path = NoBa2File /\ esl_files = NoStubs
    /\ merge_btn \in BOOLEAN /\ restore_btn \in BOOLEAN
    /\ workers = <<>> /\ finished = <<>>
    /\ pending_merge_after_restore = FALSE
    /\ backups = <<>>
    /\ temp = NoTemp
    /\ pc = "Window"
    /\ NoLocals
    /\ result = NoResult
    /\ pre = Installation
    /\ history = NoHistory
    /\ calls = 0 /\ faults = 0
GuiUnchanged ==
    UNCHANGED <<fsVars, regParent, ba2_path, esl_files, pc, localVars, result, pre,
                history, counters>>

\* lines 785-791 and 757-763: _disable_buttons(), self.worker = ...; worker.start()
StartWorker(op, running) ==
    /\ Len(running) + Len(finished) < MaxWorkers
    /\ merge_btn' = FALSE /\ restore_btn' = FALSE
    /\ workers' = Append(running, Worker(op))

\* start_restore, entered with the buttons as given
StartRestoreBody(mb, rb, pending, running) ==
    \E pathOk \in BOOLEAN :
        /\ pending_merge_after_restore' = pending
        /\ IF pathOk THEN StartWorker("restore", running)
           ELSE merge_btn' = mb /\ restore_btn' = rb /\ workers' = running

\* start_merge, entered with the buttons as given: it returns early (invalid
\* path, all files merged, Cancel, Quit, nothing to merge), hands over to
\* start_restore with the pending flag set, or starts a MergeWorker
StartMergeBody(mb, rb, pending, running) ==
    \E action \in {"return", "restore_and_merge", "continue"} :
        CASE action = "return" ->
               /\ merge_btn' = mb /\ restore_btn' = rb /\ workers' = running
               /\ pending_merge_after_restore' = pending
          [] action = "restore_and_merge" ->
               StartRestoreBody(mb, rb, TRUE, running)
          [] action = "continue" ->
               /\ StartWorker("merge", running)
               /\ pending_merge_after_restore' = pending

\* merge_btn.clicked
StartMerge ==
    /\ pc = "Window" /\ merge_btn
    /\ StartMergeBody(merge_btn, restore_btn, pending_merge_after_restore, workers)
    /\ UNCHANGED finished
    /\ GuiUnchanged
\* restore_btn.clicked
StartRestore ==
    /\ pc = "Window" /\ restore_btn
    /\ StartRestoreBody(merge_btn, restore_btn, pending_merge_after_restore, workers)
    /\ UNCHANGED finished
    /\ GuiUnchanged
\* fo4_btn.clicked: browse_fo4, and _show_merge_status when a folder was chosen
BrowseFo4 ==
    /\ pc = "Window"
    /\ \E chosen, has_ccmerged, has_other_cc, has_backup \in BOOLEAN :
         IF chosen
         THEN /\ merge_btn' = ~(has_ccmerged /\ ~has_other_cc)
              /\ restore_btn' = has_backup
         ELSE UNCHANGED <<merge_btn, restore_btn>>
    /\ UNCHANGED <<workers, finished, pending_merge_after_restore>>
    /\ GuiUnchanged
\* MergeWorker.run / RestoreWorker.run come to their end and emit finished
WorkerRun ==
    /\ pc = "Window"
    /\ \E j \in 1..Len(workers), success \in BOOLEAN :
         /\ finished' = Append(finished, Signal(workers[j].op, success))
         /\ workers' = RemoveAt(workers, j)
    /\ UNCHANGED <<merge_btn, restore_btn, pending_merge_after_restore>>
    /\ GuiUnchanged
\* on_finished(success, message)
OnFinished ==
    /\ pc = "Window" /\ finished # <<>>
    /\ finished' = Tail(finished)
    /\ IF Head(finished).success /\ pending_merge_after_restore
       THEN StartMergeBody(TRUE, TRUE, FALSE, workers)
       ELSE /\ merge_btn' = TRUE /\ restore_btn' = TRUE
            /\ pending_merge_after_restore' =
                 (Head(finished).success /\ pending_merge_after_restore)
            /\ UNCHANGED workers
    /\ GuiUnchanged
GuiNext == StartMerge \/ StartRestore \/ BrowseFo4 \/ WorkerRun \/ OnFinished
GuiSpec == GuiInit /\ [][GuiNext]_vars

\* ------------------------------------------ start_merge on a Data folder
\* One click on the merge button, on any Data folder: any stubs and archives of
\* the items, and any of the archives and stubs of an earlier merge, by this
\* version or by version 1.  Data is read as Windows reads it: glob("cc*.ba2")
\* matches whatever the case of the name.
\* _check_existing_backup: has_ccmerged and has_other_cc
CheckExistingBackup(mg, ar) ==
    LET all_cc_files == {f \in mg : f.ext = "ba2"} \cup {k \in ArchKeys : ar[k] # None}
        ccmerged_files == {f \in mg : f.ext = "ba2" /\ f.prefix = "CCPacked"}
    IN [has_ccmerged |-> ccmerged_files # {},
        has_other_cc |-> all_cc_files \ ccmerged_files # {}]
StartMergeInit ==
    /\ \E pl \in SUBSET Items, ar \in [ArchKeys -> {None, "v1"}],
          mg \in SUBSET {MainArchive, MainEsl, LegacyArchive} :
         Config(pl, ar, mg, {}, TRUE, NoRegistry)
    /\ backups = <<>>
    /\ temp = NoTemp
    /\ pc = "StartMerge"
    /\ NoLocals
    /\ result = NoResult
    /\ pre = Installation
    /\ history = NoHistory
    /\ calls = 0 /\ faults = 0
\* lines 757-763 and 785-791
Launch(op) ==
    /\ merge_btn' = FALSE /\ restore_btn' = FALSE
    /\ workers' = Append(workers, Worker(op))
Return ==
    /\ pc' = "Returned"
    /\ UNCHANGED <<merge_btn, restore_btn, workers>>
\* lines 677-708: the path, the state of Data, the dialog on mixed content
StartMergeStatus ==
    /\ pc = "StartMerge"
    /\ \E pathOk \in BOOLEAN, clicked \in {"restore_and_merge", "cancel"} :
         LET status == CheckExistingBackup(merged, arch) IN
         IF ~pathOk THEN Return /\ UNCHANGED pending_merge_after_restore
         ELSE IF status.has_ccmerged /\ ~status.has_other_cc
         THEN Return /\ UNCHANGED pending_merge_after_restore
         ELSE IF status.has_ccmerged /\ status.has_other_cc
         THEN IF clicked = "cancel"
              THEN Return /\ UNCHANGED pending_merge_after_restore
              ELSE /\ pending_merge_after_restore' = TRUE
                   /\ Launch("restore")
                   /\ pc' = "RestoreFirst"
         ELSE /\ pc' = "CheckingIntegrity"
              /\ UNCHANGED <<merge_btn, restore_btn, workers,
                             pending_merge_after_restore>>
    /\ UNCHANGED <<fsVars, regParent, ba2_path, esl_files, finished, localVars, result,
                   pre, history, counters>>
\* lines 710-763: the validation, the dialog on orphaned items with the deletion
\* and the second validation, and the start of the worker
StartMergeIntegrity ==
    /\ pc = "CheckingIntegrity"
    /\ LET found == ValidateCCContentIntegrity(plugins, arch)
           files_to_delete == FilesToDelete(found[2], plugins, arch)
       IN \E clicked \in {"delete_quit", "delete_continue", "quit"},
             failed_deletions \in SUBSET files_to_delete :
            LET deletes == found[2] # <<>> /\ clicked # "quit"
                deleted == IF deletes THEN files_to_delete \ failed_deletions ELSE {}
                pl == {i \in plugins : Stub(i) \notin deleted}
                ar == [k \in ArchKeys |-> IF k \in deleted THEN None ELSE arch[k]]
                again == ValidateCCContentIntegrity(pl, ar)
                goes_on == IF found[2] = <<>> THEN found[1] # <<>>
                           ELSE /\ clicked = "delete_continue"
                                /\ failed_deletions = {}
                                /\ again[2] = <<>> /\ again[1] # <<>>
            IN /\ ~deletes => failed_deletions = {}
               /\ plugins' = pl /\ arch' = ar
               /\ valid_cc' = IF deletes /\ failed_deletions = {}
                                 /\ clicked = "delete_continue"
                              THEN again[1] ELSE found[1]
               /\ orphaned_cc' = IF deletes /\ failed_deletions = {}
                                    /\ clicked = "delete_continue"
                                 THEN again[2] ELSE found[2]
               /\ IF goes_on THEN Launch("merge") /\ pc' = "Launched" ELSE Return
    /\ UNCHANGED <<loose, merged, strings, backups, temp, registry, regParent,
                   ba2_path, esl_files, finished, pending_merge_after_restore,
                   cc_files, current_backup, idx, moved_strings, sound_files,
                   created_esls, created_archives, groups, texture_files, result, pre,
                   history, counters>>
StartMergeNext == StartMergeStatus \/ StartMergeIntegrity
StartMergeSpec == StartMergeInit /\ [][StartMergeNext]_vars

\* ======================================================== the properties
\* a call of merge_cc_content is running or has just returned
MergeCall == pc # "Idle"
\* restore_backup has just returned success and the call before it was a
\* successful merge_cc_content; pre is the installation that merge started from
MergeThenRestore ==
    /\ pc = "Idle" /\ result = Ok("restore")
    /\ history.last = "restoreOk" /\ history.prev = "mergeOk"
\* the snapshot of the running merge holds every archive of cc_files as it was in Data
SnapshotComplete ==
    /\ current_backup \in 1..Len(backups)
    /\ \A k \in Range(cc_files) :
         pre[2][k] # None /\ backups[current_backup].files[k] = pre[2][k]
OriginalDeleted == \E k \in ArchKeys : pre[2][k] # None /\ arch[k] # pre[2][k]
Repacked == created_archives # <<>> \/ created_esls # <<>> \/ merged \ pre[3] # {}
IsMergedStubLine(l) == HasMergedPrefix(l.name) /\ l.name.ext = "esl"
NoMergedStubLine(reg) == \A j \in 1..Len(reg.lines) : ~IsMergedStubLine(reg.lines[j])

\* C1: over any sequence of merges and restores, with new items appearing in
\* between, every original archive a merge deleted is still in Data with its
\* content or in a snapshot that is still kept.
OriginalsRecoverable ==
    \A d \in history.deleted :
        \/ arch[d[1]] = d[2]
        \/ \E j \in 1..Len(backups) : backups[j].files[d[1]] = d[2]

\* C2: after a successful merge followed by a successful restore, both archives
\* of every item that had both before the merge are in Data with the content
\* they had before the merge.
ArchivesRoundTrip ==
    MergeThenRestore =>
        \A i \in pre[1] :
            (pre[2][<<i, "Main">>] # None /\ pre[2][<<i, "Textures">>] # None)
            => \A kind \in Kinds : arch[<<i, kind>>] = pre[2][<<i, kind>>]
ArchivesRoundTripWitness ==
    /\ MergeThenRestore
    /\ history.removed # {}
    /\ \A k \in history.removed : arch[k] # None

SnapshotBeforeDeleteAndRepack ==
    MergeCall =>
        /\ (OriginalDeleted \/ Repacked) => SnapshotComplete
        /\ pc = "Raised" => ~OriginalDeleted /\ ~Repacked
SnapshotBeforeDeleteAndRepackWitness ==
    /\ pc = "Done" /\ SnapshotComplete
    /\ history.removed = Range(cc_files) /\ created_archives # <<>>

FailureAfterBackup ==
    (pc = "Failed" /\ current_backup > 0) =>
        /\ ~result.success /\ history.last = "mergeFail"
        /\ SnapshotComplete
        /\ \A k \in Range(cc_files) : arch[k] = pre[2][k]
        /\ temp.exists
        /\ Range(created_archives) \cup Range(created_esls) \subseteq merged
FailureAfterBackupWitness ==
    /\ pc = "Failed" /\ current_backup > 0
    /\ created_archives # <<>>
    /\ result.error = "BSArch reported an error"

\* C7: a merge that finds no valid item, or no Data folder, fails and changes
\* nothing: no snapshot, no staging, no deletion, no registry change.
NothingToMergeChangesNothing ==
    (MergeCall /\ pc # "Validating" /\ valid_cc = <<>>) =>
        /\ pc = "Failed" /\ ~result.success
        /\ Installation = pre
NothingToMergeWitness ==
    /\ pc = "Failed" /\ valid_cc = <<>>
    /\ merged # {} /\ backups # <<>>
    /\ result.error = "Only previously merged (CCPacked) archives found."

\* C8: a merge copies to its snapshot, unpacks and deletes only the Main and
\* Textures archives of the items classified valid, and once it is done it has
\* copied and unpacked exactly those; the archives of orphaned items stay as they
\* are; nothing has changed while the classification runs.
ValidArchives == {k \in ArchKeys : \E j \in 1..Len(valid_cc) : valid_cc[j] = k[1]}
OnlyValidItemsTouched ==
    MergeCall =>
        /\ pc = "Validating" => Installation = pre
        /\ history.backedUp \subseteq ValidArchives
        /\ {u[1] : u \in history.unpacked} \subseteq ValidArchives
        /\ history.removed \subseteq ValidArchives
        /\ {k \in ArchKeys : arch[k] # pre[2][k]} = history.removed
        /\ \A k \in ArchKeys \ ValidArchives :
              current_backup \in 1..Len(backups)
              => backups[current_backup].files[k] = None
        /\ pc = "Done" =>
              /\ history.backedUp = ValidArchives
              /\ {u[1] : u \in history.unpacked} = ValidArchives
              /\ \A k \in ValidArchives \ history.removed : arch[k] # None
OnlyValidItemsTouchedWitness ==
    /\ pc = "Done" /\ history.removed = ValidArchives
    /\ \E j \in 1..Len(orphaned_cc) :
         \E kind \in Kinds : arch[<<orphaned_cc[j], kind>>] # None

\* C9: the integrity check classifies a detected item as valid exactly when its
\* Main and its Textures archive both exist, else as orphaned; the two lists are
\* disjoint and cover the detected items; a valid item that loses either archive
\* is orphaned on the next check; the check changes no file.
IntegrityClassification ==
    LET v == ValidateCCContentIntegrity(plugins, arch)
        without(k) == [arch EXCEPT ![k] = None]
    IN /\ \A i \in plugins :
            (i \in Range(v[1]))
            <=> (arch[<<i, "Main">>] # None /\ arch[<<i, "Textures">>] # None)
       /\ Range(v[1]) \cap Range(v[2]) = {}
       /\ Range(v[1]) \cup Range(v[2]) = plugins
       /\ \A i \in Range(v[1]) : \A kind \in Kinds :
            LET w == ValidateCCContentIntegrity(plugins, without(<<i, kind>>))
            IN i \in Range(w[2]) /\ i \notin Range(w[1])
       /\ pc = "CleaningOld" =>
            /\ Installation = pre
            /\ valid_cc = v[1] /\ orphaned_cc = v[2]
IntegrityClassificationWitness ==
    /\ pc = "CleaningOld"
    /\ valid_cc # <<>> /\ orphaned_cc # <<>>
    /\ \E j \in 1..Len(orphaned_cc) : arch[<<orphaned_cc[j], "Main">>] # None

\* C10: a merge passes its stages in the order Validating, BackingUp, Extracting,
\* Classifying, Repacking, RegisteringPlugins, CleaningUp, Done: each step stays
\* in its stage, enters the next one or fails, Done is entered from CleaningUp
\* only, and after Done or Failed the call takes no further step (the next step
\* is a new call or a change made by the user). The sweep of the files of earlier
\* merges runs between Validating and BackingUp.
StageRank(p) ==
    CASE p = "Validating" -> 1
      [] p = "CleaningOld" -> 2
      [] p = "BackingUp" -> 3
      [] p \in {"PreparingTemp", "Extracting"} -> 4
      [] p \in {"Classifying", "SeparatingSounds"} -> 5
      [] p \in {"RepackSounds", "RepackMain", "SplittingTextures", "RepackTextures"} -> 6
      [] p = "RegisteringPlugins" -> 7
      [] p = "CleaningUp" -> 8
      [] p = "Done" -> 9
      [] OTHER -> 0
StageStep ==
    /\ Running =>
         \/ pc' \in {"Failed", "Raised"}
         \/ StageRank(pc') = StageRank(pc)
         \/ StageRank(pc') = StageRank(pc) + 1
    /\ pc \in {"Done", "Failed", "Raised"} => pc' \in {pc, "Validating", "Idle"}
    /\ pc' = "Validating" => pc \notin {"Validating"} /\ ~Running /\ UNCHANGED fsVars
StagesInOrder == [][StageStep]_vars
StagesInOrderWitness ==
    /\ pc = "Done" /\ result = Ok("merge")
    /\ Len(created_archives) >= 2
    /\ history.removed # {}

\* the stub that carries the name prefix of an archive
StubNameOf(archive) == [archive EXCEPT !.ext = "esl"]
RegistryNames(reg) == {ReadLines(reg)[j] : j \in 1..Len(reg.lines)}

\* C11: in a merge, and so in every successful one, the stubs created are, one
\* for one and in order, those named after the archives created; the stubs are in
\* Data; and the entries the registry gained in the add step are exactly the
\* enabled entries of stubs created in this run, every created stub being listed.
OneStubPerArchive ==
    MergeCall =>
        /\ Len(created_esls) = Len(created_archives)
        /\ \A j \in 1..Len(created_archives) :
              /\ created_esls[j] = StubNameOf(created_archives[j])
              /\ \A h \in 1..Len(created_archives) :
                    created_archives[h] = created_archives[j] => h = j
        /\ pc = "Done" =>
              /\ Range(created_esls) \cup Range(created_archives) \subseteq merged
              /\ {f \in merged \ pre[3] : f.ext = "esl"} \subseteq Range(created_esls)
              /\ RegistryNames(registry) \ RegistryNames(pre[7])
                   \subseteq {Line(1, e, FALSE) : e \in Range(created_esls)}
              /\ (regParent /\ ~history.regFailed) =>
                   \A e \in Range(created_esls) :
                       \/ Line(1, e, FALSE) \in RegistryNames(registry)
                       \/ Line(0, e, FALSE) \in RegistryNames(registry)
OneStubPerArchiveWitness ==
    /\ pc = "Done" /\ result = Ok("merge")
    /\ Len(created_archives) = 3 /\ Len(created_esls) = 3
    /\ \A e \in Range(created_esls) : Line(1, e, FALSE) \in RegistryNames(registry)
    /\ RegistryNames(pre[7]) # {}

\* C12: once the sound step and the general step of repacking are over, a sound
\* archive has been produced exactly when a sound file was found, and a general
\* archive exactly when a file is left in General after the string files and the
\* sound files were taken out; neither is produced twice.
ArchiveIffFiles ==
    (pc \in {"SplittingTextures", "RepackTextures", "RegisteringPlugins", "CleaningUp"}) =>
        /\ (SoundsArchive \in Range(created_archives)) <=> (sound_files # {})
        /\ (MainArchive \in Range(created_archives)) <=> (temp.General # {})
        /\ \A j, h \in 1..Len(created_archives) :
              created_archives[j] = created_archives[h] => j = h

\* C13: a merge of two valid items without sound files whose unpacked textures
\* total 4 GiB, in a Data without earlier merged files and a registry without
\* entries of merged stubs (registry reads and writes succeeding), creates
\* exactly the general archive and one texture archive, exactly their two stubs,
\* and the registry gains exactly the two enabled entries of these stubs.
TwoItemScenario ==
    /\ pc = "Done"
    /\ pre[1] = TwoItems /\ Len(valid_cc) = 2
    /\ pre[3] = {} /\ NoMergedStubLine(pre[7])
    /\ sound_files = {}
    /\ SumSizes(Range(texture_files)) = 4
    /\ regParent /\ ~history.regFailed
TwoItemsTwoArchives ==
    TwoItemScenario =>
        /\ created_archives = <<MainArchive, TextureArchive(1)>>
        /\ created_esls = <<MainEsl, TextureEsl(1)>>
        /\ {f \in merged : f.ext = "ba2"} = {MainArchive, TextureArchive(1)}
        /\ {f \in merged : f.ext = "esl"} = {MainEsl, TextureEsl(1)}
        /\ registry.exists
        /\ registry.lines = ReadLines(pre[7])
                              \o <<Line(1, MainEsl, FALSE), Line(1, TextureEsl(1), FALSE)>>
TwoItemsTwoArchivesWitness ==
    /\ TwoItemScenario
    /\ result = Ok("merge")
    /\ Len(pre[7].lines) = 2
    /\ Len(registry.lines) = 4

RECURSIVE SizeOfGroup(_)
SizeOfGroup(g) == IF g = <<>> THEN 0 ELSE Head(g).size + SizeOfGroup(Tail(g))
RECURSIVE Concatenation(_)
Concatenation(gs) == IF gs = <<>> THEN <<>> ELSE Head(gs) \o Concatenation(Tail(gs))
SizesOf(l) == [j \in 1..Len(l) |-> l[j].size]

\* C14: every group the splitting loop produced has a total size of at most
\* MAX_SIZE, except a group of exactly one file that alone is larger than MAX_SIZE.
GroupsWithinMaximum ==
    pc = "TexturesSplit" =>
        \A j \in 1..Len(groups) :
            \/ SizeOfGroup(groups[j]) <= MAX_SIZE
            \/ Len(groups[j]) = 1 /\ groups[j][1].size > MAX_SIZE
\* a list with an oversize file between two others has been split
GroupsWithinMaximumWitness ==
    /\ pc = "TexturesSplit"
    /\ Len(texture_files) = 3 /\ Len(groups) = 3
    /\ texture_files[2].size > MAX_SIZE
    /\ texture_files[1].size > 0 /\ texture_files[3].size > 0

\* C15: the groups the splitting loop produced, one after the other, are the input
\* list: every file once and in its place; no group is empty; the empty list gives
\* no group.
GroupsPartitionInput ==
    pc = "TexturesSplit" =>
        /\ Concatenation(groups) = texture_files
        /\ \A j \in 1..Len(groups) : groups[j] # <<>>
        /\ texture_files = <<>> => groups = <<>>
GroupsPartitionInputWitness ==
    /\ pc = "TexturesSplit"
    /\ Len(texture_files) = 3 /\ Len(groups) = 2
    /\ Len(groups[1]) = 2

\* C16 as stated: files of 3, 4 and 3 GiB in this order give two groups, the
\* first with the first file alone, the second with the other two.
SplitThreeFourThreeLate ==
    (pc = "TexturesSplit" /\ SizesOf(texture_files) = <<3, 4, 3>>) =>
        groups = <<<<texture_files[1]>>, <<texture_files[2], texture_files[3]>>>>
\* C16 amended: files of 3, 4 and 3 GiB in this order give two groups, the first
\* with the first two files (7 GiB, which is not over the maximum), the second
\* with the last file alone.
SplitThreeFourThree ==
    (pc = "TexturesSplit" /\ SizesOf(texture_files) = <<3, 4, 3>>) =>
        groups = <<<<texture_files[1], texture_files[2]>>, <<texture_files[3]>>>>
SplitThreeFourThreeWitness ==
    /\ pc = "TexturesSplit"
    /\ SizesOf(texture_files) = <<3, 4, 3>>
    /\ Len(groups) = 2

\* a method of the registry has just returned with every read and write done
RegistryDone(op) ==
    /\ pc = "Registry" /\ result = Ok(op) /\ history.last = op
    /\ regParent /\ ~history.lastRegFailed
\* the line is the given name in enabled or in bare form
Lists(l, n) == l = Line(1, n, FALSE) \/ l = Line(0, n, FALSE)
Listed(lines, n) == \E j \in 1..Len(lines) : Lists(lines[j], n)
\* the lines a call appended to the lines it read
Appended(before, after) == SubSeq(after, Len(before) + 1, Len(after))

\* C17: after _add_to_plugins_txt, a second call with the same list changes
\* nothing; what the call appended are enabled entries of listed names, each at
\* most once (also for a list that repeats names), and none for a name that the
\* file already listed in enabled or bare form; the lines read are kept in place.
AddIsIdempotent ==
    RegistryDone("add") =>
        LET before == ReadLines(pre[7])
            new == Appended(before, registry.lines)
        IN /\ AddToPluginsTxt(registry, regParent, created_esls, TRUE, TRUE) = registry
           /\ registry # pre[7] =>
                /\ Len(registry.lines) > Len(before)
                /\ SubSeq(registry.lines, 1, Len(before)) = before
           /\ \A j \in 1..Len(new) :
                /\ new[j].star = 1 /\ ~new[j].pad
                /\ new[j].name \in Range(created_esls)
                /\ ~Listed(before, new[j].name)
                /\ \A h \in 1..Len(new) : new[h] = new[j] => h = j
           /\ \A n \in Range(created_esls) : Listed(registry.lines, n) \/ Listed(before, n)
AddIsIdempotentWitness ==
    /\ RegistryDone("add")
    /\ Len(created_esls) = 2 /\ created_esls[1] = created_esls[2]
    /\ created_esls[1] = MainEsl
    /\ Len(registry.lines) = Len(pre[7].lines) + 1
    /\ \E j \in 1..Len(pre[7].lines) : pre[7].lines[j] = Line(2, MainEsl, FALSE)

Unpadded(lines) == [j \in 1..Len(lines) |-> [lines[j] EXCEPT !.pad = FALSE]]
\* the step is a call of _remove_from_plugins_txt, with its read and its write done,
\* right after a call of _add_to_plugins_txt with the same names
RemoveAfterAdd ==
    /\ RegistryDone("add")
    /\ history'.last = "remove" /\ ~history'.lastRegFailed

\* C18 as stated: for any registry content and any list of names, add followed
\* by remove leaves the lines the registry had before the add, in their order.
AddThenRemoveRestoresStep == RemoveAfterAdd => registry'.lines = pre[7].lines
AddThenRemoveRestores == [][AddThenRemoveRestoresStep]_vars
\* C18 amended: when no line of the registry names one of the listed names (with
\* any number of leading stars), add followed by remove leaves the lines the
\* registry had before the add, without their surrounding blanks, in their order.
AddThenRemoveRestoresOthersStep ==
    (RemoveAfterAdd /\ \A j \in 1..Len(pre[7].lines) :
                           pre[7].lines[j].name \notin Range(created_esls))
    => /\ registry'.lines = IF registry' = pre[7] THEN pre[7].lines
                            ELSE Unpadded(pre[7].lines)
       /\ registry' # pre[7] => created_esls # <<>>
AddThenRemoveRestoresOthers == [][AddThenRemoveRestoresOthersStep]_vars
\* remove has dropped the two entries that add had appended to two other lines
AddThenRemoveRestoresOthersWitness ==
    /\ RegistryDone("remove") /\ history.prev = "add" /\ ~history.regFailed
    /\ Len(registry.lines) = 2 /\ Len(pre[7].lines) = 4
    /\ \A j \in 1..2 : /\ registry.lines[j].name \notin Range(created_esls)
                       /\ pre[7].lines[j] = registry.lines[j]
    /\ \A j \in 3..4 : pre[7].lines[j].star = 1

\* the lines of the file that do not name a listed name, whatever their stars
OtherLines(reg, names) ==
    LET other(l) == l.name \notin Range(names) IN SelectSeq(reg.lines, other)

\* C19 as stated: _remove_from_plugins_txt drops exactly the lines that name a
\* listed name, keeps every other line unchanged and in order, is idempotent, and
\* writes the file only if it dropped a line.
RemoveDropsExactly ==
    RegistryDone("remove") =>
        /\ registry.lines = OtherLines(pre[7], created_esls)
        /\ RemoveFromPluginsTxt(registry, regParent, Range(created_esls), TRUE, TRUE)
             = registry
        /\ registry # pre[7] => OtherLines(pre[7], created_esls) # pre[7].lines
\* C19 amended: _remove_from_plugins_txt drops exactly the lines that name a
\* listed name and keeps every other line in order; when it dropped a line it
\* writes the kept lines without their surrounding blanks, and when it dropped
\* none it leaves the file as it is; it is idempotent.
RemoveDropsExactlyStripped ==
    RegistryDone("remove") =>
        /\ OtherLines(pre[7], created_esls) = pre[7].lines => registry = pre[7]
        /\ OtherLines(pre[7], created_esls) # pre[7].lines =>
              /\ registry.exists
              /\ registry.lines = Unpadded(OtherLines(pre[7], created_esls))
        /\ RemoveFromPluginsTxt(registry, regParent, Range(created_esls), TRUE, TRUE)
             = registry
\* a line with two stars was dropped and a line with blanks around it was kept
RemoveDropsExactlyStrippedWitness ==
    /\ RegistryDone("remove")
    /\ Len(pre[7].lines) = 2 /\ Len(registry.lines) = 1
    /\ pre[7].lines[1] = Line(2, MainEsl, TRUE)
    /\ pre[7].lines[2] = Line(1, UserPlugin, TRUE)
    /\ registry.lines[1] = Line(1, UserPlugin, FALSE)

\* C20: registration is best effort.  When the folder of plugins.txt does not
\* exist, or the read or the write of the file is refused, the add step of a
\* merge and the remove step of a restore leave the registry as it is and the
\* call goes on: the merge reaches its cleanup and returns success, the restore
\* returns success.
BestEffortStep ==
    /\ (pc = "RegisteringPlugins" /\ (history'.lastRegFailed \/ ~regParent))
         => registry' = registry /\ pc' = "CleaningUp"
    /\ pc = "CleaningUp" => pc' = "Done" /\ result' = Ok("merge")
    /\ (calls' = calls + 1 /\ result'.op = "restore" /\ result'.success
          /\ (history'.lastRegFailed \/ ~regParent))
         => registry' = registry
RestoreCall == calls' = calls + 1 /\ result'.op = "restore"

\* C21: a restore_backup that finds no backup folder, or no snapshot directory in
\* it, returns a failure with a message and changes nothing: no file of Data, of
\* Data/Strings, of the snapshots or of staging, and not the registry; with no
\* snapshot directory a restore never succeeds.
RestoreWithoutBackupStep ==
    RestoreCall =>
        /\ backups = <<>> => ~result'.success /\ ~result'.raised
        /\ (~result'.success /\ ~result'.raised) =>
              /\ result'.error \in {"No backup folder found.", "No backups found."}
              /\ UNCHANGED fsVars
RestoreWithoutBackup == [][RestoreWithoutBackupStep]_vars
\* the restore found an empty backup folder, and left the files and the registry
\* entry of an earlier merge alone
RestoreWithoutBackupWitness ==
    /\ result = Failure("restore", "No backups found.")
    /\ backups = <<>>
    /\ \E f \in merged : f.ext = "esl" /\ Listed(registry.lines, f)
    /\ \E f \in strings : HasMergedPrefix(f)

\* the sequence is made of elements of bk, in the order they have in bk
IsSubSeqOf(sub, bk) ==
    \E pos \in [1..Len(sub) -> 1..Len(bk)] :
        /\ \A j \in 1..Len(sub) : sub[j] = bk[pos[j]]
        /\ \A j, h \in 1..Len(sub) : j < h => pos[j] < pos[h]

\* C22: after every successful restore_backup exactly one snapshot directory
\* remains, the one restored from, with its files unchanged.
OneSnapshotAfterRestoreStep ==
    (RestoreCall /\ result'.success) => backups' = <<backups[Len(backups)]>>
OneSnapshotAfterRestore == [][OneSnapshotAfterRestoreStep]_vars
\* What holds of the snapshots: after every successful restore_backup the
\* snapshot restored from remains, unchanged, as the most recent one; every other
\* snapshot that remains is an older one, unchanged, whose rmtree was refused;
\* when nothing is refused exactly one snapshot remains.
LatestSnapshotAfterRestoreStep ==
    (RestoreCall /\ result'.success) =>
        /\ backups # <<>> /\ backups' # <<>>
        /\ backups'[Len(backups')] = backups[Len(backups)]
        /\ IsSubSeqOf(backups', backups)
        /\ faults' = faults => Len(backups') = 1
LatestSnapshotAfterRestore == [][LatestSnapshotAfterRestoreStep]_vars

\* the step is a call of restore_backup, for this installation, right after a
\* restore_backup that returned success
RestoreAgain ==
    /\ pc = "Idle" /\ result = Ok("restore") /\ history.last = "restoreOk"
    /\ RestoreCall
    /\ result'.error # "No backup folder found."

\* C23: a restore_backup run right after a successful one succeeds as well, unless
\* a copy is refused; when it succeeds it leaves the plugins, the archives, the
\* merged files, staging and the registry as the first run left them, and, when
\* no unlink or rmtree has been refused either, also Data/Strings and the snapshots.
RestoreIsRepeatableStep ==
    RestoreAgain =>
        /\ faults' = faults => result' = Ok("restore")
        /\ result'.success => UNCHANGED <<plugins, loose, arch, merged, temp, registry>>
        /\ (faults = 0 /\ faults' = 0) => UNCHANGED <<strings, backups>>
RestoreIsRepeatable == [][RestoreIsRepeatableStep]_vars
\* a merge, a restore and a second restore, with nothing refused: the archives
\* the merge had removed are back in Data
RestoreIsRepeatableWitness ==
    /\ pc = "Idle" /\ result = Ok("restore")
    /\ history.last = "restoreOk" /\ history.prev = "restoreOk"
    /\ faults = 0 /\ Len(backups) = 1
    /\ history.removed # {}
    /\ \A k \in history.removed : arch[k] = backups[1].files[k] /\ arch[k] # None

\* a line of the registry names the stub, whatever its stars and blanks
Names(reg, e) == \E j \in 1..Len(reg.lines) : reg.lines[j].name = e
\* what a successful restore_backup step leaves of the merged files in Data and of
\* the snapshot it restores from
MergedFilesGone == merged' = {}
SnapshotIsBack ==
    LET latest_backup == backups[Len(backups)] IN
    /\ \A k \in ArchKeys :
          latest_backup.files[k] # None => arch'[k] = latest_backup.files[k]
    /\ ManifestFile \notin loose'
ManifestStringsGone ==
    LET latest_backup == backups[Len(backups)] IN
    latest_backup.hasManifest => latest_backup.manifest \cap strings' = {}
DeletedStubsUnlisted == \A e \in MergedEsls(merged) : ~Names(registry', e)

\* C24: after every successful restore_backup no file with the merged or the
\* legacy prefix is in Data, no string file of the snapshot's manifest is in
\* Data/Strings, the registry (when it could be read and written) has no entry of
\* a merged stub that was deleted, every file of the snapshot but the manifest is
\* in Data, and the manifest is not.
RestoreCleansUpStep ==
    (RestoreCall /\ result'.success) =>
        /\ MergedFilesGone
        /\ ManifestStringsGone
        /\ ~history'.lastRegFailed => DeletedStubsUnlisted
        /\ SnapshotIsBack
RestoreCleansUp == [][RestoreCleansUpStep]_vars
\* What holds of a successful restore_backup: no file with the merged or the
\* legacy prefix is in Data, every file of the snapshot but the manifest is in
\* Data, and the manifest is not; when nothing was refused in the call, no string
\* file of the snapshot's manifest is in Data/Strings and the registry has no
\* entry of a merged stub that was deleted.
RestoreCleansUpUnlessRefusedStep ==
    (RestoreCall /\ result'.success) =>
        /\ MergedFilesGone
        /\ SnapshotIsBack
        /\ faults' = faults => ManifestStringsGone /\ DeletedStubsUnlisted
RestoreCleansUpUnlessRefused == [][RestoreCleansUpUnlessRefusedStep]_vars
\* C25: verify_ba2_integrity, on a file it can read, rejects in this order of
\* precedence a file shorter than 24 bytes, a wrong magic, a version other than 1
\* and 8, a type other than GNRL and DX10, and a name table offset greater than
\* the file size, each with a message of its own; it accepts every other file,
\* one whose name table offset equals its size included; it leaves the file as
\* it is.
IntegrityErrors ==
    <<"Archive too small", "Invalid BA2 header", "Unexpected BA2 version",
      "Unknown archive type", "Corrupted archive (name table beyond EOF)">>
\* the first of the five checks the file does not pass, 6 when it passes all
FirstFailedCheck(f) ==
    LET passes == <<f.size >= 24, f.magic = "BTDX", f.version \in {1, 8},
                    f.archive_type \in {"GNRL", "DX10"},
                    f.name_table_offset <= f.size, FALSE>>
    IN CHOOSE c \in 1..6 : ~passes[c] /\ \A b \in 1..(c - 1) : passes[b]
IntegrityPrecedenceStep ==
    (pc = "Verifying" /\ pc' = "Verified") =>
        /\ ba2_path' = ba2_path
        /\ (ba2_path.exists /\ result'.error # "Cannot read archive") =>
              LET c == FirstFailedCheck(ba2_path) IN
              /\ result'.success <=> c = 6
              /\ c < 6 => result'.error = IntegrityErrors[c]
              /\ \A a, b \in 1..5 : IntegrityErrors[a] = IntegrityErrors[b] => a = b
IntegrityPrecedence == [][IntegrityPrecedenceStep]_vars
\* a file of a valid header whose name table starts right at its end is accepted
IntegrityPrecedenceWitness ==
    /\ pc = "Verified" /\ result.success
    /\ ba2_path.size > 24 /\ ba2_path.name_table_offset = ba2_path.size
    /\ ba2_path.version = 8 /\ ba2_path.archive_type = "DX10"

\* the tags of the subrecords that follow each other from byte `at` of the data
\* to its end, each with a two-byte length and that many bytes; <<>> is appended
\* for bytes that are no subrecord
RECURSIVE SubrecordTags(_, _)
SubrecordTags(data, at) ==
    IF at = Len(data) + 1 THEN <<>>
    ELSE IF at + 5 > Len(data) THEN << <<>> >>
    ELSE LET size == FromBytes(SubSeq(data, at + 4, at + 5))
         IN <<SubSeq(data, at, at + 3)>> \o
            (IF at + 6 + size > Len(data) + 1 THEN << <<>> >>
             ELSE SubrecordTags(data, at + 6 + size))
Written == {p \in StubPaths : esl_files[p] # <<>>}

OneWorkerAtATime ==
    pc = "Window" =>
        /\ InFlight <= 1
        /\ InFlight = 1 => ~merge_btn /\ ~restore_btn

\* the files packed in the archives of the valid items as the merge found them
FilesToMerge == UNION {ArchiveFiles(k, pre[2][k]) : k \in ValidArchives}

\* C28: when merge_cc_content returns success, every archive of every valid item
\* was unpacked and verified, every string file of these archives was moved to
\* Data/Strings, every output archive made has its stub, every original archive
\* of a valid item is deleted and staging is removed; a merge that fails returns
\* a failure with one message.
NoPartialSuccess ==
    /\ pc = "Done" =>
         /\ result = Ok("merge")
         /\ {u[1] : u \in history.unpacked} = ValidArchives
         /\ moved_strings = {StringsName(f) : f \in {g \in FilesToMerge : IsStringExt(g.ext)}}
         /\ moved_strings \subseteq strings
         /\ Len(created_esls) = Len(created_archives)
         /\ Range(created_esls) \cup Range(created_archives) \subseteq merged
         /\ \A k \in ValidArchives : arch[k] = None
         /\ ~temp.exists
    /\ pc = "Failed" => ~result.success /\ result.error # ""

\* the archive the next step of the extraction loop unpacks, and the files a
\* step has added to the staging directory of that archive
NextArchive == ExtractQueue(cc_files)[idx]
Extracted ==
    IF ExtractDir(NextArchive) = "General" THEN temp'.General \ temp.General
    ELSE temp'.Textures \ temp.Textures

\* C29: the verification after an unpack is strict: whenever the merge goes on
\* after unpacking an archive whose header declares N files, that unpack has put
\* at least N files into staging; fewer make the merge fail.
StrictVerificationStep ==
    (pc = "Extracting" /\ pc' # "Failed") =>
        Cardinality(Extracted) >= Cardinality(ArchiveFiles(NextArchive, arch[NextArchive]))
StrictVerification == [][StrictVerificationStep]_vars

\* the first n archives of the extraction loop, and the files packed in them
FirstArchives(n) == {ExtractQueue(cc_files)[j] : j \in 1..n}
FilesOfFirst(n) == UNION {ArchiveFiles(k, pre[2][k]) : k \in FirstArchives(n)}
\* the running merge has failed in its extraction loop
ExtractionFailed ==
    /\ pc = "Failed" /\ current_backup > 0
    /\ Cardinality(history.unpacked) < Len(cc_files)

OriginalsGoneStubsStay ==
    pc = "Done" =>
        /\ plugins = pre[1]
        /\ \A k \in ValidArchives : arch[k] = None
        /\ ~temp.exists
\* what holds of it: the stubs stay, and the archives and staging are gone unless
\* the operating system refused an unlink or the rmtree in step 10
StubsStayOriginalsGoneUnlessRefused ==
    pc = "Done" =>
        /\ plugins = pre[1]
        /\ \A k \in ValidArchives : k \in history.removed <=> arch[k] = None
        /\ faults = 0 => history.removed = ValidArchives /\ ~temp.exists

\* the bucket of a staged file, by its lower-cased extension
Bucket(f) ==
    IF IsStringExt(f.ext) THEN "Strings"
    ELSE IF IsSoundExt(f.ext) THEN "Sounds" ELSE "General"
InBucket(S, b) == {f \in S : Bucket(f) = b}
\* the string step and the sound step of a merge
ClassifyStringsStep ==
    (pc = "Classifying" /\ pc' = "SeparatingSounds") =>
        LET found == InBucket(temp.General, "Strings")
            names == {StringsName(f) : f \in found}
        IN /\ temp'.General = temp.General \ found
           /\ strings' = strings \cup names
           /\ moved_strings' = names
           /\ backups'[current_backup].hasManifest = (names # {})
           /\ backups'[current_backup].manifest = names
SeparateSoundsStep ==
    (pc = "SeparatingSounds" /\ pc' = "RepackSounds") =>
        LET found == InBucket(temp.General, "Sounds")
        IN /\ temp'.Sounds = found /\ sound_files' = found
           /\ temp'.General = temp.General \ found
           /\ InBucket(temp'.General, "General") = temp'.General
           /\ strings \ pre[4] \subseteq moved_strings
           /\ backups[current_backup].manifest = moved_strings

\* C32: the files unpacked from main archives into the General staging directory
\* are classified by their lower-cased extension alone, each into one bucket:
\* every string file leaves staging for Data/Strings and its name is written to
\* the manifest of the snapshot of this merge, every sound file moves to the
\* Sounds staging directory as it is, every other file stays; after the two steps
\* no string or sound file is left in General, and the manifest lists exactly the
\* names of the string files that were put in Data/Strings.
ClassificationByExtension == [][ClassifyStringsStep /\ SeparateSoundsStep]_vars

\* C33: every archive a merge has unpacked went to one staging directory, the one
\* of its kind: <base> - Main.ba2 to General and <base> - Textures.ba2 to
\* Textures, whatever the base name of the item is.
UnpackedByKind ==
    /\ \A u \in history.unpacked :
         u[2] = (IF u[1][2] = "Main" THEN "General" ELSE "Textures")
    /\ \A u, w \in history.unpacked : u[1] = w[1] => u[2] = w[2]

\* C34: the groups are those of the greedy rule and no others: they are the input
\* list cut into non-empty pieces, a file after the first of a group was appended
\* only where the group with it is not over MAX_SIZE (a sum of exactly MAX_SIZE
\* stays), and a group was closed only where the next file would have taken it
\* over MAX_SIZE; nothing but the order and the sizes enters.  The i-th group,
\* counted from 1, is packed into the archive and gets the stub numbered i.
GreedyFirstFit ==
    pc \in {"TexturesSplit", "Failed"} =>
        /\ Concatenation(groups) = texture_files
        /\ \A j \in 1..Len(groups) :
             /\ groups[j] # <<>>
             /\ \A n \in 2..Len(groups[j]) :
                  SizeOfGroup(SubSeq(groups[j], 1, n)) <= MAX_SIZE
             /\ j < Len(groups) =>
                  SizeOfGroup(groups[j]) + groups[j + 1][1].size > MAX_SIZE
        /\ Len(created_archives) <= Len(groups)
        /\ Len(created_esls) = Len(created_archives)
        /\ pc = "TexturesSplit" => Len(created_archives) = idx - 1
        /\ \A j \in 1..Len(created_archives) :
             /\ created_archives[j] = FileName("CCPacked", "Main_Textures", j, "ba2")
             /\ created_esls[j] = FileName("CCPacked", "Main_Textures", j, "esl")
             /\ temp.splits[j] = Range(groups[j])
\* two files that together are exactly MAX_SIZE share the first group, a third
\* file has the second, and both groups are packed
GreedyFirstFitWitness ==
    /\ pc = "TexturesSplit"
    /\ Len(texture_files) = 3 /\ Len(groups) = 2
    /\ Len(groups[1]) = 2 /\ SizeOfGroup(groups[1]) = MAX_SIZE
    /\ idx = 3 /\ Len(created_archives) = 2

\* the items the validation before the deletion found complete and incomplete
ValidBefore == ValidateCCContentIntegrity(pre[1], pre[2])[1]
OrphansBefore == Range(ValidateCCContentIntegrity(pre[1], pre[2])[2])

\* C35: _delete_orphaned_cc_content removes nothing but stubs and archives of
\* the orphaned items it was given: the stub and both archives of every other
\* item, and everything else in Data, are as before.  It returns success exactly
\* when no unlink failed, and then no stub or archive of an orphaned item is
\* left; the validation after a successful call finds no orphaned item and the
\* valid items it found before.
OrphansDeletedOnly ==
    pc \in {"OrphansDeleted", "Revalidated"} =>
        /\ \A i \in Items \ OrphansBefore :
             /\ i \in plugins <=> i \in pre[1]
             /\ \A kind \in Kinds : arch[<<i, kind>>] = pre[2][<<i, kind>>]
        /\ plugins \subseteq pre[1]
        /\ \A k \in ArchKeys : arch[k] \in {None, pre[2][k]}
        /\ <<merged, strings, backups, temp, registry, loose>>
             = <<pre[3], pre[4], pre[5], pre[6], pre[7], pre[8]>>
        /\ result.success <=>
             \A i \in OrphansBefore :
                 i \notin plugins /\ \A kind \in Kinds : arch[<<i, kind>>] = None
        /\ (pc = "Revalidated" /\ result.success) =>
             orphaned_cc = <<>> /\ valid_cc = ValidBefore
\* a Data folder with a complete item and an item that has lost an archive: the
\* files of the latter were deleted and the validation was run again
OrphansDeletedOnlyWitness ==
    /\ pc = "Revalidated" /\ result.success
    /\ ValidBefore # <<>> /\ OrphansBefore # {}
    /\ \E i \in OrphansBefore : HasEither(pre[2], i)
    /\ orphaned_cc = <<>>

\* on_finished handles a signal; it has started a merge worker
Handled == pc = "Window" /\ finished # <<>> /\ finished' = Tail(finished)
MergeStarted ==
    /\ Len(workers') = Len(workers) + 1
    /\ workers'[Len(workers')] = Worker("merge")
StillRunning(op) == \E j \in 1..Len(workers) : workers[j] = Worker(op)

\* C36: on_finished starts the pending merge only when the signal it handles is
\* a success, the pending flag is set and no restore worker is still running;
\* when the signal is a failure it clears the pending flag and starts no worker.
PendingMergeAfterRestoreStep ==
    Handled =>
        /\ MergeStarted =>
             /\ Head(finished).success
             /\ pending_merge_after_restore
             /\ ~StillRunning("restore")
        /\ ~Head(finished).success =>
             ~pending_merge_after_restore' /\ workers' = workers
PendingMergeAfterRestore == [][PendingMergeAfterRestoreStep]_vars
\* what holds of it: a merge is started by on_finished only on a success with
\* the flag set, the flag is cleared by it, and a failure clears the flag and
\* starts nothing
PendingMergeOnSuccessStep ==
    Handled =>
        /\ MergeStarted =>
             /\ Head(finished).success /\ pending_merge_after_restore
             /\ ~pending_merge_after_restore'
        /\ ~Head(finished).success =>
             ~pending_merge_after_restore' /\ workers' = workers
PendingMergeOnSuccess == [][PendingMergeOnSuccessStep]_vars

MergedArchives == {f \in merged : f.ext = "ba2"}
MergeWorkerLaunched == pc = "Launched" /\ workers = <<Worker("merge")>>

\* C37: start_merge launches a merge worker only on a Data folder without an
\* archive of an earlier merge, in which the integrity check finds no orphaned
\* item and at least one valid item.
MergeWorkerGate ==
    MergeWorkerLaunched =>
        /\ MergedArchives = {}
        /\ ValidateCCContentIntegrity(plugins, arch)[2] = <<>>
        /\ ValidateCCContentIntegrity(plugins, arch)[1] # <<>>
\* what holds of it: no CCPacked archive is in Data when the worker is launched,
\* and the integrity check is clean
MergeWorkerGateForPacked ==
    MergeWorkerLaunched =>
        /\ \A f \in MergedArchives : f.prefix # "CCPacked"
        /\ ValidateCCContentIntegrity(plugins, arch)[2] = <<>>
        /\ ValidateCCContentIntegrity(plugins, arch)[1] # <<>>
        /\ valid_cc = ValidateCCContentIntegrity(plugins, arch)[1]

\* the output of the merge that has just returned
CreatedByThisMerge == Range(created_archives) \cup Range(created_esls)

\* C38: after a successful merge the files in Data with the CCPacked or the
\* CCMerged prefix are the archives and stubs this merge created and no others,
\* and Data/Strings holds no file with such a prefix: nothing of an earlier merge
\* is left.
NoStaleMergedFiles ==
    pc = "Done" =>
        /\ merged = CreatedByThisMerge
        /\ \A n \in strings : ~HasMergedPrefix(n)
\* what holds of it: what is left of an earlier merge is what the operating
\* system refused to unlink in step 2
NoStaleMergedFilesUnlessRefused ==
    pc = "Done" =>
        /\ CreatedByThisMerge \subseteq merged
        /\ merged \ CreatedByThisMerge \subseteq pre[3]
        /\ {n \in strings : HasMergedPrefix(n)} \subseteq pre[4]
        /\ faults = 0 => NoStaleMergedFiles

\* a call has returned success and nothing was refused in this behaviour
SucceededUnrefused ==
    /\ pc \in {"Done", "Idle"} /\ result.success
    /\ result.op \in {"merge", "restore"}
    /\ faults = 0
\* the entries of merged stubs, enabled or bare
MergedStubEntries(reg) ==
    {reg.lines[j].name : j \in {h \in 1..Len(reg.lines) :
        IsMergedStubLine(reg.lines[h]) /\ reg.lines[h].star <= 1}}

\* C39: after a merge or a restore that succeeded, with no read or write
\* refused, every entry of a merged stub in the registry, enabled or bare, names
\* a stub that is in Data.
StubEntriesHaveFiles ==
    SucceededUnrefused => MergedStubEntries(registry) \subseteq merged
\* what holds of it: an entry without its stub was in the registry before the
\* call, and the stubs the merge created are in Data
StubEntriesWithoutFileAreOld ==
    SucceededUnrefused =>
        /\ MergedStubEntries(registry) \ merged \subseteq MergedStubEntries(pre[7])
        /\ pc = "Done" => Range(created_esls) \subseteq merged

====
